---- MODULE Spec2Model ----
(***************************************************************************)
(* Crawl scheduler of the CAST extension (src/background.js): the BFS      *)
(* queue, the visited and discovered sets, the page timer, the tab         *)
(* listeners and the scan command, as a state machine driven by the        *)
(* browser's callbacks.  Timers and callbacks are events that may run in   *)
(* any order; each handler body runs atomically (one JS task).             *)
(***************************************************************************)
EXTENDS Naturals, Integers, Sequences, FiniteSets, Bags, TLC

\* ------------------------------------------------------------------ bounds
MaxDepthArg == 3        \* largest crawl depth the popup is made to send
MaxLimitArg == 2        \* largest page limit the popup is made to send
MaxErrors == 1          \* chrome API errors and broken content scripts per crawl
MaxSessions == 2        \* sessions created
MaxCalls == 2           \* records added to the capture store
MaxParams == 2          \* query parameters of a URL given to normalizeUrl
MaxCallList == 2        \* network calls handed to one indexing run
MaxRuns == 2            \* indexing runs
MaxFailures == 1        \* failed embedding calls in a run of two waves
MaxRecords == 3         \* records of a small embeddings store
MaxK == 2               \* the limit of a similarity search
MaxHits == 2            \* retrieved requests deduplicated at once
MaxEvents == 2          \* classified analytics events consolidated at once
MaxBatchCalls == 3      \* network calls handed to one analysis run
MaxBatches == 2         \* batches one analysis run is split into
MaxStored == 3          \* per-batch records added to the result stores
MaxPasses == 2          \* consolidation passes
MaxCsvChars == 3        \* characters in the cells of an exported table
MaxCsvCells == 3        \* cells of an exported table

\* --------------------------------------------------------------- constants
PAGE_LOAD_TIMEOUT == 15000
maxRetries == 5
DefaultDepth == 2

\* -------------------------------------------------------------------- URLs
\* A URL is the parsed form new URL(...) gives: origin, pathname, the list
\* of query parameters (key, value) in order, and the fragment.
Ex    == "https://example.com"
Other == "https://other.com"
Chrome == "chrome://extensions"

U(o, p, q, h) == [origin |-> o, pathname |-> p, search |-> q, hash |-> h]

Seed  == U(Ex, "/", <<>>, "")
PageA == U(Ex, "/a", <<>>, "")
PageATop == U(Ex, "/a", <<>>, "top")
PageB == U(Ex, "/b", <<>>, "")
PageD == U(Ex, "/d", <<>>, "")
PageE == U(Ex, "/e", <<>>, "")
PageC == U(Other, "/c", <<>>, "")
ChromePage == U(Chrome, "/", <<>>, "")

Urls == {Seed, PageA, PageATop, PageB, PageD, PageE, PageC}

\* hrefs of the clickable elements of each page of the site being crawled
PageHrefs(u) ==
  IF u.origin # Ex THEN <<>>
  ELSE IF u.pathname = "/" THEN <<PageA, PageB, PageC>>
  ELSE IF u.pathname = "/a" THEN <<PageB, PageD>>
  ELSE IF u.pathname = "/b" THEN <<PageATop, PageD, PageC>>
  ELSE IF u.pathname = "/d" THEN <<PageE>>
  ELSE <<>>

\* null, for a URL, an origin, a task and a timer
NoUrl == U("none", "", <<>>, "")
NoOrigin == "none"
NoTask == [url |-> NoUrl, depth |-> 0]
NoTimer == NoUrl

\* ------------------------------------------------------------ normalizeUrl
\* stable insertion of a (key, value) pair into a list sorted by key; a key
\* is written as its rank in localeCompare order
RECURSIVE InsertParam(_, _)
InsertParam(p, s) ==
  IF s = <<>> THEN <<p>>
  ELSE IF p[1] < Head(s)[1] THEN <<p>> \o s
  ELSE <<Head(s)>> \o InsertParam(p, Tail(s))

RECURSIVE SortParams(_)
SortParams(s) ==
  IF s = <<>> THEN <<>>
  ELSE InsertParam(s[Len(s)], SortParams(SubSeq(s, 1, Len(s) - 1)))

\* new URL(url) succeeds: the text has a scheme and a host
CanParse(u) == u.origin \in {Ex, Other, Chrome}

\* searchParams.entries() decodes a value and searchParams.append() writes
\* it back form-urlencoded: a space, written %20 or +, comes back as +
Reencoded(value) == IF value = "a%20b" THEN "a+b" ELSE value

ReencodedParams(s) == [i \in 1..Len(s) |-> <<s[i][1], Reencoded(s[i][2])>>]

normalizeUrlKeepHash(u) ==
  IF ~CanParse(u) THEN u
  ELSE [u EXCEPT !.search = ReencodedParams(SortParams(u.search))]

normalizeUrl(u) ==
  IF ~CanParse(u) THEN u
  ELSE [u EXCEPT !.hash = "",
                 !.search = ReencodedParams(SortParams(u.search))]

\* ------------------------------------------------------------------- state
VARIABLES
  maxDepth, pageLimit, origin,      \* crawl parameters (pageLimit 0 = null)
  phase,                            \* progress of crawl-start / startCrawl
  queue, visited, allDiscoveredLinks, crawlActive, currentTask,
  pageTimeout,                      \* the live page timer's task url, or NoTimer
  logs,                             \* url -> "none" | "empty" | "scanned"
  crawlStatus,                      \* CAST_crawlStatus, by kind of message
  pendingProcessNext,               \* setTimeout(processNext) not yet run
  tabsGetPending,                   \* tasks whose chrome.tabs.get callback is due
  tabsUpdatePending,                \* tasks whose chrome.tabs.update failed, callback due
  scanTimers,                       \* setTimeout(sendScanMessageToTab) not yet run
  sends,                            \* sendScanMessageToTab invocations in progress
  scanning,                         \* interactAndScan running in the tab's document
  tabUrl, tabStatus,                \* the crawled tab: tab.url, tab.status
  contentScript,                    \* of the tab's document: "auto" (there once
                                    \* loaded), "injected", "dead" (unreachable)
  hung,                             \* the page that never finishes loading, if any
  errors,                           \* API errors injected so far
  visitLog,                         \* history: tasks whose visit was started
  dequeueLog,                       \* history: [depth, rest] of every queue.shift()
  overlap,                          \* history: a dequeue happened with a task in flight
  enqueueLog,                       \* history: links enqueued by scan reports
  abandoned,                        \* history: normalized URLs given up by the page timer
  reports,                          \* history: the page-scanned messages received
  currentSessionId,                 \* 0 for null
  localSessionId,                   \* chrome.storage.local CAST_currentSessionId, 0 if absent
  lastSession,                      \* the session ids made so far are 1..lastSession
  networkCalls,                     \* IndexedDB store networkCalls
  lastCallId,                       \* its autoIncrement key generator
  resultStores,                     \* stores techStackResults and analyticsEventsResults
  uniqueUrls,                       \* IndexedDB store uniqueUrls
  captured,                         \* history: every record added to networkCalls
  bootSession,                      \* history: lastSession at the last browser startup
  norm,                             \* normalizeUrl applied to a pair of URLs
  attached,                         \* the debugger is attached to the tab
  lastEvent,                        \* history: the debugger event delivered last
  embeddings,                       \* CASTRAG: IndexedDB store embeddings
  indexRun,                         \* CASTRAG: the processNetworkCalls call in progress
  runs,                             \* history: processNetworkCalls calls made
  embeddingCache,                   \* CASTRAG: this.embeddingCache, by cache key
  cacheStore,                       \* CASTRAG: IndexedDB store embeddingCache, by cache key
  apiCalls,                         \* history: requests sent to the embedding endpoint
  search,                           \* CASTRAG: the searchSimilar call in progress
  analysis,                         \* retrieval and consolidation: the deduplication in progress
  batchRun,                         \* processBatchesDirect: batches and the payloads submitted
  aiRun,                            \* processBatchesDirect: the batch loop, its model calls and the cancel flag
  sessionResults,                   \* the session's records in techStackResults and analyticsEventsResults
  csv                               \* a CSV export: the rows, the writer and the text written

schedVars == <<queue, visited, allDiscoveredLinks, crawlActive, currentTask,
               pageTimeout, logs, crawlStatus, pendingProcessNext,
               tabsGetPending, visitLog, dequeueLog, overlap, enqueueLog,
               abandoned, reports>>

storeVars == <<currentSessionId, localSessionId, lastSession, networkCalls,
               lastCallId, resultStores, uniqueUrls, captured, bootSession>>

ragVars == <<embeddings, indexRun, runs, embeddingCache, cacheStore, apiCalls>>

aiVars == <<search, analysis, batchRun, aiRun, sessionResults, csv>>

otherVars == <<norm, attached, lastEvent, ragVars, aiVars>>

vars == <<maxDepth, pageLimit, origin, phase, queue, visited,
          allDiscoveredLinks, crawlActive, currentTask, pageTimeout, logs,
          crawlStatus, pendingProcessNext, tabsGetPending, tabsUpdatePending,
          scanTimers, sends, scanning, tabUrl, tabStatus, contentScript, hung,
          errors, visitLog, dequeueLog, overlap, enqueueLog, abandoned, reports,
          storeVars, otherVars>>

\* the scheduler's globals as one record, so that a handler can call
\* processNext() synchronously
Globals ==
  [queue |-> queue, visited |-> visited,
   allDiscoveredLinks |-> allDiscoveredLinks, crawlActive |-> crawlActive,
   currentTask |-> currentTask, pageTimeout |-> pageTimeout, logs |-> logs,
   crawlStatus |-> crawlStatus, pendingProcessNext |-> pendingProcessNext,
   tabsGetPending |-> tabsGetPending, visitLog |-> visitLog,
   dequeueLog |-> dequeueLog, overlap |-> overlap, enqueueLog |-> enqueueLog,
   abandoned |-> abandoned, reports |-> reports]

Commit(g) ==
  /\ queue' = g.queue
  /\ visited' = g.visited
  /\ allDiscoveredLinks' = g.allDiscoveredLinks
  /\ crawlActive' = g.crawlActive
  /\ currentTask' = g.currentTask
  /\ pageTimeout' = g.pageTimeout
  /\ logs' = g.logs
  /\ crawlStatus' = g.crawlStatus
  /\ pendingProcessNext' = g.pendingProcessNext
  /\ tabsGetPending' = g.tabsGetPending
  /\ visitLog' = g.visitLog
  /\ dequeueLog' = g.dequeueLog
  /\ overlap' = g.overlap
  /\ enqueueLog' = g.enqueueLog
  /\ abandoned' = g.abandoned
  /\ reports' = g.reports

FreshLogs == [u \in Urls |-> "none"]

NoRun == [sessionId |-> 0, existingSignatures |-> {},
          requestsToProcess |-> <<>>, fetching |-> {}, done |-> {}]

\* an embedding is a vector; two non-negative components stand for the 768
NoVector == <<0, 0>>
CacheKeys == {11, 12}
NoCache == [key \in CacheKeys |-> NoVector]

NoEvent == [method |-> "none", url |-> "none", requestId |-> 0]

\* no call of normalizeUrl under observation
NoNorm == [stage |-> "none", u |-> NoUrl, v |-> NoUrl, nu |-> NoUrl,
           nv |-> NoUrl, nnu |-> NoUrl]

\* searchSimilar not called
NoSearch == [stage |-> "none", queryEmbedding |-> NoVector, sessionId |-> 0,
             limit |-> 0, cursor |-> 0, processed |-> 0, batch |-> <<>>,
             heap |-> <<>>, results |-> <<>>]

\* no retrieval and no consolidation done
NoAnalysis == [stage |-> "none", hits |-> <<>>, analytics |-> <<>>,
               allRelevant |-> <<>>, uniqueRequests |-> <<>>,
               records |-> <<>>, deduped |-> <<>>]

\* processBatchesDirect not called
NoBatchRun == [stage |-> "none", networkCalls |-> <<>>, batches |-> <<>>,
               i |-> 0, submitted |-> <<>>]

\* no export made; the rows to export start as one row of one empty cell
NoCsv == [stage |-> "rows", rows |-> << << <<>> >> >>, writer |-> "none",
          csvContent |-> <<>>]

\* no result stored for the session, no consolidation pass made
NoSessionResults ==
  [tech |-> <<>>, analytics |-> <<>>, added |-> 0, passes |-> 0, fresh |-> FALSE,
   before |-> [tech |-> <<>>, analytics |-> <<>>]]

\* the "ai-summary" messages the popup sends: runAI is never disabled, so
\* a second request can arrive while the first is still answered
AiRequests == {"first", "second"}

\* an "ai-summary" request that has not arrived
NoAiRequest == [stage |-> "none", n |-> 0, i |-> 0, attempt |-> 0, calls |-> 0,
              delay |-> 0, outcome |-> <<>>, cancelAt |-> -1]

\* aiCancelRequested = false, no result stored, no request
NoAiRun == [aiCancelRequested |-> FALSE, results |-> {}, slept |-> {},
            runs |-> [r \in AiRequests |-> NoAiRequest]]

InitCommon ==
  /\ maxDepth = DefaultDepth
  /\ pageLimit = 0
  /\ origin = NoOrigin
  /\ phase = "idle"
  /\ queue = <<>>
  /\ visited = {}
  /\ allDiscoveredLinks = {}
  /\ crawlActive = FALSE
  /\ currentTask = NoTask
  /\ pageTimeout = NoTimer
  /\ logs = FreshLogs
  /\ crawlStatus = "none"
  /\ pendingProcessNext = 0
  /\ tabsGetPending = {}
  /\ tabsUpdatePending = {}
  /\ scanTimers = EmptyBag
  /\ sends = EmptyBag
  /\ scanning = EmptyBag
  /\ tabUrl \in {Seed, ChromePage}
  /\ tabStatus \in {"loading", "complete"}
  /\ contentScript = "auto"
  /\ errors = 0
  /\ visitLog = <<>>
  /\ dequeueLog = <<>>
  /\ overlap = FALSE
  /\ enqueueLog = <<>>
  /\ abandoned = {}
  /\ reports = <<>>
  /\ currentSessionId = 0
  /\ localSessionId = 0
  /\ lastSession = 0
  /\ networkCalls = {}
  /\ lastCallId = 0
  /\ resultStores = {}
  /\ uniqueUrls = {}
  /\ captured = {}
  /\ bootSession = 0
  /\ attached = FALSE
  /\ lastEvent = NoEvent
  /\ indexRun = NoRun
  /\ runs = 0
  /\ embeddingCache = NoCache
  /\ cacheStore = NoCache
  /\ apiCalls = 0
  /\ search = NoSearch
  /\ analysis = NoAnalysis
  /\ batchRun = NoBatchRun
  /\ aiRun = NoAiRun
  /\ sessionResults = NoSessionResults
  /\ csv = NoCsv

Init ==
  /\ InitCommon
  /\ embeddings = {}
  /\ hung = NoUrl
  /\ norm = NoNorm

\* ------------------------------------------------------- crawl-start, startCrawl
\* the crawl-start message handler: depth outside 0..5 falls back to 2, a
\* page limit that is not a positive number becomes null
CrawlStartOn(d, l) ==
  /\ lastSession < MaxSessions
  /\ maxDepth' = IF d >= 0 /\ d <= 5 THEN d ELSE DefaultDepth
  /\ pageLimit' = IF l > 0 THEN l ELSE 0
  /\ phase' = "query"
  /\ UNCHANGED <<origin, schedVars, tabsUpdatePending, scanTimers, sends,
                 scanning, tabUrl, tabStatus, contentScript, hung, errors>>
  /\ UNCHANGED storeVars
  /\ UNCHANGED otherVars

\* the first start request of a service worker's life
CrawlStart(d, l) ==
  /\ phase = "idle"
  /\ CrawlStartOn(d, l)

IsHttp(u) == u.origin \in {Ex, Other}

\* startCrawl, the chrome.tabs.query callback up to the first await
StartCrawlTabQueried ==
  /\ phase = "query"
  /\ IF ~IsHttp(tabUrl)
     THEN /\ phase' = "ignored"
          /\ UNCHANGED <<origin, schedVars>>
     ELSE /\ phase' = "reset"
          /\ origin' = tabUrl.origin
          /\ Commit([Globals EXCEPT
                 !.logs = FreshLogs,
                 !.queue = <<[url |-> tabUrl, depth |-> 1]>>,
                 !.visited = {},
                 !.allDiscoveredLinks = {normalizeUrl(tabUrl)},
                 !.crawlActive = TRUE,
                 !.currentTask = NoTask])
  /\ UNCHANGED <<maxDepth, pageLimit, tabsUpdatePending, scanTimers, sends,
                 scanning, tabUrl, tabStatus, contentScript, hung, errors>>
  /\ UNCHANGED storeVars
  /\ UNCHANGED otherVars

\* saveUniqueUrlToDB for each url: nothing without a session id, and the
\* unique index on (sessionId, url) keeps one record per pair
SavedUrls(store, sessionId, urls) ==
  IF sessionId = 0 THEN store
  ELSE store \cup {[sessionId |-> sessionId, url |-> u] : u \in urls}

\* clearNetworkCallsForSession / clearStoreEntriesForSession
ClearSession(store, sessionId) ==
  IF sessionId = 0 THEN store ELSE {r \in store : r.sessionId # sessionId}

\* startCrawl, the chrome.storage.local.get callback: a new session id is
\* made and stored, the stored session's calls and urls are deleted, the
\* seed is saved
StartCrawlSession ==
  /\ phase = "reset"
  /\ phase' = "session"
  /\ lastSession' = lastSession + 1
  /\ currentSessionId' = lastSession + 1
  /\ localSessionId' = lastSession + 1
  /\ networkCalls' = ClearSession(networkCalls, localSessionId)
  /\ uniqueUrls' = SavedUrls(ClearSession(uniqueUrls, localSessionId),
                             lastSession + 1, {normalizeUrl(tabUrl)})
  /\ UNCHANGED <<lastCallId, resultStores, captured, bootSession>>
  /\ UNCHANGED otherVars
  /\ UNCHANGED <<maxDepth, pageLimit, origin, schedVars, tabsUpdatePending,
                 scanTimers, sends, scanning, tabUrl, tabStatus, contentScript,
                 hung, errors>>

\* startCrawl, the rest of the storage callback and the
\* chrome.debugger.attach callback: the page timer is cleared, then either
\* the attach fails or processNext is scheduled
StartCrawlAttached(ok) ==
  /\ phase = "session"
  /\ ok \/ errors < MaxErrors
  /\ errors' = IF ok THEN errors ELSE errors + 1
  /\ phase' = IF ok THEN "started" ELSE "failed"
  /\ Commit(IF ok
            THEN [Globals EXCEPT !.pageTimeout = NoTimer,
                                 !.crawlStatus = "starting",
                                 !.pendingProcessNext = @ + 1]
            ELSE [Globals EXCEPT !.pageTimeout = NoTimer,
                                 !.crawlStatus = "failed",
                                 !.crawlActive = FALSE])
  /\ attached' = (attached \/ ok)
  /\ UNCHANGED <<maxDepth, pageLimit, origin, tabsUpdatePending, scanTimers,
                 sends, scanning, tabUrl, tabStatus, contentScript, hung>>
  /\ UNCHANGED storeVars
  /\ UNCHANGED <<norm, lastEvent, ragVars, aiVars>>

\* ------------------------------------------------------------- processNext
RestDepths(q) == {q[i].depth : i \in 1..Len(q)}

MarkVisited(v, n) == v \cup {n}

LimitReachedOffByOne(g) == pageLimit # 0 /\ Cardinality(g.visited) > pageLimit

LimitReached(g) == pageLimit # 0 /\ Cardinality(g.visited) >= pageLimit

\* a processNext that never looks at the active flag
DeactivatedIgnored(g) == FALSE

\* processNext's first test: !crawlActive
Deactivated(g) == ~g.crawlActive

\* processNext() on the globals g.  The branches for an invalid task, a
\* URL that fails to normalize and an unset activeTabId cannot be taken:
\* every queued task has a parsed URL and the tab id is set by startCrawl.
ProcessNextOn(g) ==
  IF Deactivated(g)
  THEN [g EXCEPT !.pageTimeout = NoTimer, !.crawlStatus = "stopped"]
  ELSE IF LimitReached(g)
  THEN [g EXCEPT !.crawlActive = FALSE, !.pageTimeout = NoTimer,
                 !.crawlStatus = "limit"]
  ELSE IF g.queue = <<>>
  THEN [g EXCEPT !.crawlActive = FALSE, !.pageTimeout = NoTimer,
                 !.crawlStatus = "complete"]
  ELSE
    LET task == Head(g.queue)
        normalizedUrl == normalizeUrl(task.url)
        g1 == [g EXCEPT
                 !.queue = Tail(g.queue),
                 !.dequeueLog = Append(@, [depth |-> task.depth,
                                           rest |-> RestDepths(Tail(g.queue))]),
                 !.overlap = @ \/ g.currentTask # NoTask]
    IN IF normalizedUrl \in g.visited
       THEN [g1 EXCEPT !.pendingProcessNext = @ + 1]
       ELSE IF task.depth > maxDepth
       THEN [g1 EXCEPT !.pendingProcessNext = @ + 1]
       ELSE [g1 EXCEPT
               !.crawlStatus = "crawling",
               !.visited = MarkVisited(@, normalizedUrl),
               !.currentTask = task,
               !.visitLog = Append(@, task),
               !.pageTimeout = task.url,
               !.tabsGetPending = @ \cup {task}]

\* a setTimeout(() => processNext(), ...) callback runs
ProcessNext ==
  /\ pendingProcessNext > 0
  /\ Commit(ProcessNextOn([Globals EXCEPT !.pendingProcessNext = @ - 1]))
  /\ UNCHANGED <<maxDepth, pageLimit, origin, phase, tabsUpdatePending,
                 scanTimers, sends, scanning, tabUrl, tabStatus, contentScript,
                 hung, errors>>
  /\ UNCHANGED storeVars
  /\ UNCHANGED otherVars

\* the timer callback without its logs write
EmptyRecordSkipped(l, u) == l

EmptyRecord(l, u) == [l EXCEPT ![u] = IF @ = "none" THEN "empty" ELSE @]

\* the page timer set by processNext fires
PageTimeoutFires ==
  /\ pageTimeout # NoTimer
  /\ IF currentTask # NoTask
        /\ normalizeUrl(currentTask.url) = normalizeUrl(pageTimeout)
     THEN Commit(ProcessNextOn([Globals EXCEPT
                   !.logs = EmptyRecord(@, pageTimeout),
                   !.abandoned = @ \cup {normalizeUrl(pageTimeout)},
                   !.currentTask = NoTask,
                   !.pageTimeout = NoTimer]))
     ELSE Commit([Globals EXCEPT !.pageTimeout = NoTimer])
  /\ UNCHANGED <<maxDepth, pageLimit, origin, phase, tabsUpdatePending,
                 scanTimers, sends, scanning, tabUrl, tabStatus, contentScript,
                 hung, errors>>
  /\ UNCHANGED storeVars
  /\ UNCHANGED otherVars

\* an error branch that gives the whole crawl up
TaskFailedAborts(g) ==
  [g EXCEPT !.currentTask = NoTask, !.pageTimeout = NoTimer,
            !.crawlActive = FALSE]

\* the error branches of processNext's callbacks: clear the task, clear
\* the timer, processNext()
TaskFailedOn(g) ==
  ProcessNextOn([g EXCEPT !.currentTask = NoTask, !.pageTimeout = NoTimer])

\* ------------------------------------------------------- handlePageScanned
\* the comparator of queue.sort reversed
RECURSIVE InsertTaskDescending(_, _)
InsertTaskDescending(t, q) ==
  IF q = <<>> THEN <<t>>
  ELSE IF t.depth > Head(q).depth THEN <<t>> \o q
  ELSE <<Head(q)>> \o InsertTaskDescending(t, Tail(q))

RECURSIVE SortDescending(_)
SortDescending(q) ==
  IF q = <<>> THEN <<>>
  ELSE InsertTaskDescending(q[Len(q)], SortDescending(SubSeq(q, 1, Len(q) - 1)))

RECURSIVE InsertTask(_, _)
InsertTask(t, q) ==
  IF q = <<>> THEN <<t>>
  ELSE IF t.depth < Head(q).depth THEN <<t>> \o q
  ELSE <<Head(q)>> \o InsertTask(t, Tail(q))

\* queue.sort((a, b) => a.depth - b.depth): a stable sort by depth
RECURSIVE SortByDepth(_)
SortByDepth(q) ==
  IF q = <<>> THEN <<>>
  ELSE InsertTask(q[Len(q)], SortByDepth(SubSeq(q, 1, Len(q) - 1)))

\* queue.push(...newLinks); queue.sort(...)
EnqueueLinks(q, newLinks) == SortByDepth(q \o newLinks)

LinkIsNewNoIndex(u, discovered, vis) ==
  /\ u.origin = origin
  /\ normalizeUrl(u) \notin vis

\* the test of one href in handlePageScanned's loop
LinkIsNew(u, discovered, vis) ==
  /\ u.origin = origin
  /\ normalizeUrl(u) \notin discovered
  /\ normalizeUrl(u) \notin vis

\* the loop over internalLinks: acc is [newLinks, discovered, log]
RECURSIVE CollectLinks(_, _, _, _)
CollectLinks(hrefs, depth, vis, acc) ==
  IF hrefs = <<>> THEN acc
  ELSE
    LET u == Head(hrefs)
        entry == [url |-> u, depth |-> depth + 1, from |-> depth,
                  known |-> normalizeUrl(u) \in acc.discovered \cup vis]
    IN IF LinkIsNew(u, acc.discovered, vis)
       THEN CollectLinks(Tail(hrefs), depth, vis,
              [newLinks |-> Append(acc.newLinks, [url |-> u, depth |-> depth + 1]),
               discovered |-> acc.discovered \cup {normalizeUrl(u)},
               log |-> Append(acc.log, entry)])
       ELSE CollectLinks(Tail(hrefs), depth, vis, acc)

DepthAllowsLinks(depth) == depth < maxDepth

\* the guard at the head of handlePageScanned: with a task in flight, a
\* report for another URL is dropped only if its origin differs too
ReportIgnored(g, msg) ==
  /\ g.currentTask # NoTask
  /\ normalizeUrl(msg.url) # normalizeUrl(g.currentTask.url)
  /\ msg.url.origin # g.currentTask.url.origin

HandlePageScannedOn(g, msg) ==
  IF ReportIgnored(g, msg) THEN [g EXCEPT !.reports = Append(@, msg)]
  ELSE
    LET found == IF DepthAllowsLinks(msg.depth) /\ msg.internalLinks # <<>>
                 THEN CollectLinks(msg.internalLinks, msg.depth, g.visited,
                        [newLinks |-> <<>>, discovered |-> g.allDiscoveredLinks,
                         log |-> <<>>])
                 ELSE [newLinks |-> <<>>, discovered |-> g.allDiscoveredLinks,
                       log |-> <<>>]
    IN [g EXCEPT
          !.logs = IF msg.url \in Urls THEN [@ EXCEPT ![msg.url] = "scanned"] ELSE @,
          !.allDiscoveredLinks = found.discovered,
          !.queue = IF found.newLinks # <<>>
                    THEN EnqueueLinks(g.queue, found.newLinks) ELSE @,
          !.enqueueLog = @ \o found.log,
          !.reports = Append(@, msg),
          !.crawlStatus = "scanned",
          !.pageTimeout = NoTimer,
          !.currentTask = NoTask,
          !.pendingProcessNext = @ + 1]

\* ------------------------------------------------ the content script's scan
RECURSIVE SameOriginOnly(_, _)
SameOriginOnly(hrefs, o) ==
  IF hrefs = <<>> THEN <<>>
  ELSE IF Head(hrefs).origin = o
       THEN <<Head(hrefs)>> \o SameOriginOnly(Tail(hrefs), o)
       ELSE SameOriginOnly(Tail(hrefs), o)

\* scanPage: the hrefs of the page's own origin, in document order
scanPage(u) == SameOriginOnly(PageHrefs(u), u.origin)

\* interactAndScan reaches scanPage and the page-scanned message is handled
ScanDone(s) ==
  /\ BagIn(s, scanning)
  /\ scanning' = scanning (-) SetToBag({s})
  /\ Commit(HandlePageScannedOn(Globals,
        [url |-> s.url, depth |-> s.depth, internalLinks |-> scanPage(s.url)]))
  /\ UNCHANGED <<maxDepth, pageLimit, origin, phase, tabsUpdatePending,
                 scanTimers, sends, tabUrl, tabStatus, contentScript, hung,
                 errors>>
  /\ uniqueUrls' = SavedUrls(uniqueUrls, currentSessionId,
                          allDiscoveredLinks' \ allDiscoveredLinks)
  /\ UNCHANGED <<currentSessionId, localSessionId, lastSession, networkCalls,
                 lastCallId, resultStores, captured, bootSession>>
  /\ UNCHANGED otherVars

\* -------------------------------------------- processNext's tab callbacks
InPlaceTimer(d) == [kind |-> "inplace", depth |-> d]
LoadedTimer == [kind |-> "loaded", depth |-> 0]

\* chrome.tabs.get calls back with an error or without a tab
TabsGetFails(task) ==
  /\ task \in tabsGetPending
  /\ errors < MaxErrors
  /\ errors' = errors + 1
  /\ Commit(TaskFailedOn([Globals EXCEPT !.tabsGetPending = @ \ {task}]))
  /\ UNCHANGED <<maxDepth, pageLimit, origin, phase, tabsUpdatePending,
                 scanTimers, sends, scanning, tabUrl, tabStatus,
                 contentScript, hung>>
  /\ UNCHANGED storeVars
  /\ UNCHANGED otherVars

\* chrome.tabs.get calls back and the tab is already on the task's URL
TabsGetInPlace(task) ==
  /\ task \in tabsGetPending
  /\ normalizeUrl(tabUrl) = normalizeUrl(task.url)
  /\ tabsGetPending' = tabsGetPending \ {task}
  /\ scanTimers' = scanTimers (+) SetToBag({InPlaceTimer(task.depth)})
  /\ UNCHANGED <<maxDepth, pageLimit, origin, phase, queue, visited,
                 allDiscoveredLinks, crawlActive, currentTask, pageTimeout,
                 logs, crawlStatus, pendingProcessNext, tabsUpdatePending,
                 sends, scanning, tabUrl, tabStatus, contentScript, hung,
                 errors, visitLog, dequeueLog, overlap, enqueueLog, abandoned, reports>>
  /\ UNCHANGED storeVars
  /\ UNCHANGED otherVars

\* chrome.tabs.get calls back, chrome.tabs.update starts the navigation:
\* the old document and the scan running in it are gone
TabsGetNavigate(task, cs) ==
  /\ task \in tabsGetPending
  /\ normalizeUrl(tabUrl) # normalizeUrl(task.url)
  /\ cs = "auto" \/ (cs = "dead" /\ errors < MaxErrors)
  /\ errors' = IF cs = "dead" THEN errors + 1 ELSE errors
  /\ tabsGetPending' = tabsGetPending \ {task}
  /\ tabUrl' = task.url
  /\ tabStatus' = "loading"
  /\ contentScript' = cs
  /\ scanning' = EmptyBag
  /\ UNCHANGED <<maxDepth, pageLimit, origin, phase, queue, visited,
                 allDiscoveredLinks, crawlActive, currentTask, pageTimeout,
                 logs, crawlStatus, pendingProcessNext, tabsUpdatePending,
                 scanTimers, sends, hung, visitLog, dequeueLog, overlap,
                 enqueueLog, abandoned, reports>>
  /\ UNCHANGED storeVars
  /\ UNCHANGED otherVars

\* chrome.tabs.get calls back, chrome.tabs.update is refused
TabsGetUpdateRefused(task) ==
  /\ task \in tabsGetPending
  /\ normalizeUrl(tabUrl) # normalizeUrl(task.url)
  /\ errors < MaxErrors
  /\ errors' = errors + 1
  /\ tabsGetPending' = tabsGetPending \ {task}
  /\ tabsUpdatePending' = tabsUpdatePending \cup {task}
  /\ UNCHANGED <<maxDepth, pageLimit, origin, phase, queue, visited,
                 allDiscoveredLinks, crawlActive, currentTask, pageTimeout,
                 logs, crawlStatus, pendingProcessNext, scanTimers, sends,
                 scanning, tabUrl, tabStatus, contentScript, hung, visitLog,
                 dequeueLog, overlap, enqueueLog, abandoned, reports>>
  /\ UNCHANGED storeVars
  /\ UNCHANGED otherVars

\* the chrome.tabs.update callback finds chrome.runtime.lastError
TabsUpdateFails(task) ==
  /\ task \in tabsUpdatePending
  /\ tabsUpdatePending' = tabsUpdatePending \ {task}
  /\ Commit(TaskFailedOn(Globals))
  /\ UNCHANGED <<maxDepth, pageLimit, origin, phase, scanTimers, sends,
                 scanning, tabUrl, tabStatus, contentScript, hung, errors>>
  /\ UNCHANGED storeVars
  /\ UNCHANGED otherVars

\* ------------------------------------------------- chrome.tabs.onUpdated
\* the listener lets a completed load through when the tab's URL is the
\* task's, or has its origin and path, or merely has the crawl's origin
UrlMatches(tab, task) ==
  \/ normalizeUrl(tab) = normalizeUrl(task.url)
  \/ (tab.origin = task.url.origin /\ tab.pathname = task.url.pathname)
  \/ tab.origin = origin

\* the tab reports status "complete" and the onUpdated listener runs
LoadComplete ==
  /\ tabStatus = "loading"
  /\ normalizeUrl(tabUrl) # hung
  /\ tabStatus' = "complete"
  /\ IF crawlActive /\ currentTask # NoTask /\ UrlMatches(tabUrl, currentTask)
     THEN /\ pageTimeout' = NoTimer
          /\ scanTimers' = scanTimers (+) SetToBag({LoadedTimer})
     ELSE UNCHANGED <<pageTimeout, scanTimers>>
  /\ UNCHANGED <<maxDepth, pageLimit, origin, phase, queue, visited,
                 allDiscoveredLinks, crawlActive, currentTask, logs,
                 crawlStatus, pendingProcessNext, tabsGetPending,
                 tabsUpdatePending, sends, scanning, tabUrl, contentScript,
                 hung, errors, visitLog, dequeueLog, overlap, enqueueLog, abandoned, reports>>
  /\ UNCHANGED storeVars
  /\ UNCHANGED otherVars

\* --------------------------------------------------- sendScanMessageToTab
NewSend(d) == [depth |-> d, retryCount |-> 0, stage |-> "send"]

\* a setTimeout(() => sendScanMessageToTab(...), 500) callback runs.  The
\* one set by onUpdated reads currentTask.depth when it runs and throws
\* if the task is gone; the one set by processNext carries its task's depth
ScanTimerFires(t) ==
  /\ BagIn(t, scanTimers)
  /\ scanTimers' = scanTimers (-) SetToBag({t})
  /\ sends' = IF t.kind = "inplace" THEN sends (+) SetToBag({NewSend(t.depth)})
              ELSE IF currentTask # NoTask
                   THEN sends (+) SetToBag({NewSend(currentTask.depth)})
                   ELSE sends
  /\ UNCHANGED <<maxDepth, pageLimit, origin, phase, schedVars,
                 tabsUpdatePending, scanning, tabUrl, tabStatus,
                 contentScript, hung, errors>>
  /\ UNCHANGED storeVars
  /\ UNCHANGED otherVars

\* a content script answers in the tab's document
Reachable ==
  /\ IsHttp(tabUrl)
  /\ normalizeUrl(tabUrl) # hung
  /\ \/ contentScript = "injected"
     \/ (contentScript = "auto" /\ tabStatus = "complete")

OnLastErrorRestart(s) ==
  IF s.retryCount < maxRetries
  THEN [s EXCEPT !.retryCount = @ + 1]
  ELSE [s EXCEPT !.retryCount = 0]

\* the sendMessage callback finds chrome.runtime.lastError: one more retry
\* while retryCount < maxRetries, then the injection
OnLastError(s) ==
  IF s.retryCount < maxRetries
  THEN [s EXCEPT !.retryCount = @ + 1]
  ELSE [s EXCEPT !.stage = "inject"]

\* chrome.tabs.sendMessage calls back: delivered (the content script
\* starts interactAndScan), or lastError and a retry, or after maxRetries
\* the script is injected
AttemptSend(s) ==
  /\ BagIn(s, sends)
  /\ s.stage = "send"
  /\ IF Reachable
     THEN /\ sends' = sends (-) SetToBag({s})
          /\ scanning' = scanning (+) SetToBag({[url |-> tabUrl, depth |-> s.depth]})
     ELSE /\ scanning' = scanning
          /\ sends' = (sends (-) SetToBag({s})) (+) SetToBag({OnLastError(s)})
  /\ UNCHANGED <<maxDepth, pageLimit, origin, phase, schedVars,
                 tabsUpdatePending, scanTimers, tabUrl, tabStatus,
                 contentScript, hung, errors>>
  /\ UNCHANGED storeVars
  /\ UNCHANGED otherVars

\* chrome.scripting.executeScript settles: injected and the message is
\* sent once more, or rejected and the task is given up
InjectSettles(s) ==
  /\ BagIn(s, sends)
  /\ s.stage = "inject"
  /\ normalizeUrl(tabUrl) # hung
  /\ IF IsHttp(tabUrl) /\ contentScript # "dead"
     THEN /\ contentScript' = "injected"
          /\ sends' = (sends (-) SetToBag({s})) (+) SetToBag({[s EXCEPT !.stage = "send"]})
          /\ UNCHANGED schedVars
     ELSE /\ contentScript' = contentScript
          /\ sends' = sends (-) SetToBag({s})
          /\ IF currentTask # NoTask
             THEN Commit(ProcessNextOn([Globals EXCEPT
                           !.logs = EmptyRecord(@, currentTask.url),
                           !.currentTask = NoTask]))
             ELSE UNCHANGED schedVars
  /\ UNCHANGED <<maxDepth, pageLimit, origin, phase, tabsUpdatePending,
                 scanTimers, scanning, tabUrl, tabStatus, hung, errors>>
  /\ UNCHANGED storeVars
  /\ UNCHANGED otherVars

\* ---------------------------------------------------------- specification
DepthArgs == 0..MaxDepthArg
LimitArgs == 0..MaxLimitArg

Next ==
  \/ \E d \in DepthArgs, l \in LimitArgs : CrawlStart(d, l)
  \/ StartCrawlTabQueried
  \/ StartCrawlSession
  \/ \E ok \in BOOLEAN : StartCrawlAttached(ok)
  \/ ProcessNext
  \/ PageTimeoutFires
  \/ \E task \in tabsGetPending : TabsGetFails(task)
  \/ \E task \in tabsGetPending : TabsGetInPlace(task)
  \/ \E task \in tabsGetPending, cs \in {"auto", "dead"} : TabsGetNavigate(task, cs)
  \/ \E task \in tabsGetPending : TabsGetUpdateRefused(task)
  \/ \E task \in tabsUpdatePending : TabsUpdateFails(task)
  \/ LoadComplete
  \/ \E t \in BagToSet(scanTimers) : ScanTimerFires(t)
  \/ \E s \in BagToSet(sends) : AttemptSend(s)
  \/ \E s \in BagToSet(sends) : InjectSettles(s)
  \/ \E s \in BagToSet(scanning) : ScanDone(s)

Spec == Init /\ [][Next]_vars

\* The same crawl under the browser's usual ordering: a chrome.tabs.get or
\* chrome.tabs.update callback that is due runs before any timer callback
\* (the background's setTimeout of 400 ms and more, the content script's
\* sleeps before scanPage).  Load events and chrome.tabs.sendMessage
\* callbacks stay unordered.
NoCallbackDue == tabsGetPending = {} /\ tabsUpdatePending = {}

NextTimed ==
  \/ \E d \in DepthArgs, l \in LimitArgs : CrawlStart(d, l)
  \/ StartCrawlTabQueried
  \/ StartCrawlSession
  \/ \E ok \in BOOLEAN : StartCrawlAttached(ok)
  \/ NoCallbackDue /\ ProcessNext
  \/ NoCallbackDue /\ PageTimeoutFires
  \/ \E task \in tabsGetPending : TabsGetFails(task)
  \/ \E task \in tabsGetPending : TabsGetInPlace(task)
  \/ \E task \in tabsGetPending, cs \in {"auto", "dead"} : TabsGetNavigate(task, cs)
  \/ \E task \in tabsGetPending : TabsGetUpdateRefused(task)
  \/ \E task \in tabsUpdatePending : TabsUpdateFails(task)
  \/ LoadComplete
  \/ \E t \in BagToSet(scanTimers) : NoCallbackDue /\ ScanTimerFires(t)
  \/ \E s \in BagToSet(sends) : AttemptSend(s)
  \/ \E s \in BagToSet(sends) : InjectSettles(s)
  \/ \E s \in BagToSet(scanning) : NoCallbackDue /\ ScanDone(s)

SpecTimed == Init /\ [][NextTimed]_vars

\* The timed crawl with one page that hangs: its load never completes, no
\* content script ever answers in it and no injection into it settles.
\* Every timer and callback that is due eventually runs, every other page
\* eventually finishes its load and its scan.
HungPages == {Seed, PageA, PageB, PageD}

InitHung ==
  /\ InitCommon
  /\ embeddings = {}
  /\ tabUrl = Seed
  /\ hung \in HungPages
  /\ norm = NoNorm

FairSpec == InitHung /\ [][NextTimed]_vars /\ WF_vars(NextTimed)

\* The timed crawl with one page that loads but never reports: its
\* content script takes the scan command and interactAndScan never gets
\* to send page-scanned.  Every timer and callback that is due eventually
\* runs, every other page eventually finishes its load and its scan.
MutePage == PageA

NextMute ==
  \/ \E d \in DepthArgs, l \in LimitArgs : CrawlStart(d, l)
  \/ StartCrawlTabQueried
  \/ StartCrawlSession
  \/ \E ok \in BOOLEAN : StartCrawlAttached(ok)
  \/ NoCallbackDue /\ ProcessNext
  \/ NoCallbackDue /\ PageTimeoutFires
  \/ \E task \in tabsGetPending : TabsGetFails(task)
  \/ \E task \in tabsGetPending : TabsGetInPlace(task)
  \/ \E task \in tabsGetPending, cs \in {"auto", "dead"} : TabsGetNavigate(task, cs)
  \/ \E task \in tabsGetPending : TabsGetUpdateRefused(task)
  \/ \E task \in tabsUpdatePending : TabsUpdateFails(task)
  \/ LoadComplete
  \/ \E t \in BagToSet(scanTimers) : NoCallbackDue /\ ScanTimerFires(t)
  \/ \E s \in BagToSet(sends) : AttemptSend(s)
  \/ \E s \in BagToSet(sends) : InjectSettles(s)
  \/ \E s \in BagToSet(scanning) :
        /\ NoCallbackDue
        /\ normalizeUrl(s.url) # normalizeUrl(MutePage)
        /\ ScanDone(s)

FairMute == Init /\ [][NextMute]_vars /\ WF_vars(NextMute)

\* The scheduler alone, fed page-scanned messages as chrome.runtime
\* delivers them to the onMessage listener: any url, depth and link list.
MaxReports == 2         \* page-scanned messages delivered per crawl

MsgUrls == {Seed, PageC}
MsgDepths == {1, 2}
MsgLinks == {<<PageA, PageB, PageC>>, <<PageATop, PageD, PageB>>}

\* the onMessage listener's page-scanned branch
PageScanned(msg) ==
  /\ phase = "started"
  /\ Len(reports) < MaxReports
  /\ Commit(HandlePageScannedOn(Globals, msg))
  /\ UNCHANGED <<maxDepth, pageLimit, origin, phase, tabsUpdatePending,
                 scanTimers, sends, scanning, tabUrl, tabStatus,
                 contentScript, hung, errors>>
  /\ uniqueUrls' = SavedUrls(uniqueUrls, currentSessionId,
                          allDiscoveredLinks' \ allDiscoveredLinks)
  /\ UNCHANGED <<currentSessionId, localSessionId, lastSession, networkCalls,
                 lastCallId, resultStores, captured, bootSession>>
  /\ UNCHANGED otherVars

NextMsg ==
  \/ \E d \in DepthArgs, l \in LimitArgs : CrawlStart(d, l)
  \/ StartCrawlTabQueried
  \/ StartCrawlSession
  \/ \E ok \in BOOLEAN : StartCrawlAttached(ok)
  \/ ProcessNext
  \/ PageTimeoutFires
  \/ \E u \in MsgUrls, d \in MsgDepths, ls \in MsgLinks :
        PageScanned([url |-> u, depth |-> d, internalLinks |-> ls])

SpecMsg == Init /\ [][NextMsg]_vars

\* ------------------------------------------------- sessions and the stores
\* a later start request: the popup's start button stays enabled, so it can
\* arrive once the previous request's startCrawl has run, whatever the
\* crawl is doing
CrawlRestart(d, l) ==
  /\ phase \in {"started", "failed", "ignored"}
  /\ CrawlStartOn(d, l)

RequestSent == "Network.requestWillBeSent"
Methods == {RequestSent, "Network.responseReceived"}
NoRequest == "none"
RequestUrls == {"https://t.example/collect?e=1", "::not a url::", NoRequest}
RequestIds == {1}

\* new URL(req.url) succeeds
Parseable(url) == url = "https://t.example/collect?e=1"

DebuggerEvents == [method : Methods, url : RequestUrls, requestId : RequestIds]

\* an append whose record takes the request id as its key
SaveNetworkCallByRequestId(store, key, current, sessionId, pageUrl, event) ==
  IF current = 0 \/ sessionId = 0 THEN store
  ELSE IF event.method # RequestSent THEN store
  ELSE IF event.url = NoRequest THEN store
  ELSE IF ~Parseable(event.url) THEN store
  ELSE {r \in store : r.id # event.requestId} \cup
       {[id |-> event.requestId, sessionId |-> sessionId, pageUrl |-> pageUrl,
         url |-> event.url, requestId |-> event.requestId]}

\* saveNetworkCallToDB: store.add under the next autoIncrement key
SaveNetworkCallToDB(store, key, current, sessionId, pageUrl, event) ==
  IF current = 0 \/ sessionId = 0 THEN store
  ELSE IF event.method # RequestSent THEN store
  ELSE IF event.url = NoRequest THEN store
  ELSE IF ~Parseable(event.url) THEN store
  ELSE store \cup
       {[id |-> key, sessionId |-> sessionId, pageUrl |-> pageUrl,
         url |-> event.url, requestId |-> event.requestId]}

\* the chrome.debugger.onEvent listener with its chrome.tabs.get callback
DebuggerEvent(event) ==
  /\ attached
  /\ origin # NoOrigin
  /\ lastCallId < MaxCalls
  /\ tabUrl \in Urls
  /\ logs' = EmptyRecord(logs, tabUrl)
  /\ networkCalls' =
       IF currentSessionId = 0 THEN networkCalls
       ELSE SaveNetworkCallToDB(networkCalls, lastCallId + 1, currentSessionId,
                                currentSessionId, tabUrl, event)
  /\ lastCallId' = IF networkCalls' = networkCalls THEN lastCallId
                   ELSE lastCallId + 1
  /\ captured' = captured \cup (networkCalls' \ networkCalls)
  /\ UNCHANGED <<maxDepth, pageLimit, origin, phase, queue, visited,
                 allDiscoveredLinks, crawlActive, currentTask, pageTimeout,
                 crawlStatus, pendingProcessNext, tabsGetPending,
                 tabsUpdatePending, scanTimers, sends, scanning, tabUrl,
                 tabStatus, contentScript, hung, errors, visitLog, dequeueLog,
                 overlap, enqueueLog, abandoned, reports>>
  /\ lastEvent' = event
  /\ UNCHANGED <<currentSessionId, localSessionId, lastSession, resultStores,
                 uniqueUrls, bootSession>>
  /\ UNCHANGED <<norm, attached, ragVars, aiVars>>

ResultStoreNames == {"techStackResults", "analyticsEventsResults"}

\* storeAIResults for one batch with a tech item and an analytics event
StoreAIResults ==
  /\ currentSessionId # 0
  /\ resultStores' = resultStores \cup
        {[store |-> n, sessionId |-> currentSessionId] : n \in ResultStoreNames}
  /\ resultStores' # resultStores
  /\ UNCHANGED <<maxDepth, pageLimit, origin, phase, schedVars,
                 tabsUpdatePending, scanTimers, sends, scanning, tabUrl,
                 tabStatus, contentScript, hung, errors>>
  /\ UNCHANGED <<currentSessionId, localSessionId, lastSession, networkCalls,
                 lastCallId, uniqueUrls, captured, bootSession>>
  /\ UNCHANGED otherVars

\* the service worker's script is evaluated anew: every global has its
\* declared value, no timer or callback of the previous life is left and
\* the debugger session is gone
WorkerRestarts ==
  /\ maxDepth' = DefaultDepth
  /\ pageLimit' = 0
  /\ origin' = NoOrigin
  /\ phase' = "idle"
  /\ queue' = <<>>
  /\ visited' = {}
  /\ allDiscoveredLinks' = {}
  /\ crawlActive' = FALSE
  /\ currentTask' = NoTask
  /\ pageTimeout' = NoTimer
  /\ logs' = FreshLogs
  /\ pendingProcessNext' = 0
  /\ tabsGetPending' = {}
  /\ tabsUpdatePending' = {}
  /\ scanTimers' = EmptyBag
  /\ sends' = EmptyBag
  /\ currentSessionId' = 0
  /\ attached' = FALSE
  /\ UNCHANGED <<norm, lastEvent, ragVars, aiVars>>
  /\ UNCHANGED <<tabUrl, tabStatus, contentScript, hung, errors, visitLog,
                 dequeueLog, overlap, enqueueLog, abandoned, reports,
                 lastSession, lastCallId, captured>>

\* clearEntireDatabase: the stores it names are cleared
ClearEntireDatabase ==
  /\ networkCalls' = {}
  /\ resultStores' = {}
  /\ UNCHANGED uniqueUrls

\* the browser starts: the worker starts and the onStartup listener runs
BrowserStartup ==
  /\ phase # "idle"
  /\ WorkerRestarts
  /\ ClearEntireDatabase
  /\ localSessionId' = 0
  /\ crawlStatus' = "none"
  /\ scanning' = EmptyBag
  /\ bootSession' = lastSession

\* the extension is reloaded: the worker starts, storage is kept
ExtensionReload ==
  /\ phase # "idle"
  /\ WorkerRestarts
  /\ UNCHANGED <<networkCalls, resultStores, uniqueUrls, localSessionId,
                 crawlStatus, scanning, bootSession>>

\* The scheduler with start requests that arrive during a crawl.
NextRestart ==
  \/ \E d \in DepthArgs, l \in LimitArgs : CrawlStart(d, l)
  \/ \E d \in DepthArgs, l \in LimitArgs : CrawlRestart(d, l)
  \/ StartCrawlTabQueried
  \/ StartCrawlSession
  \/ \E ok \in BOOLEAN : StartCrawlAttached(ok)
  \/ ProcessNext
  \/ PageTimeoutFires
  \/ PageScanned([url |-> Seed, depth |-> 1,
                  internalLinks |-> <<PageA, PageB, PageC>>])

SpecRestart == Init /\ [][NextRestart]_vars

\* The sessions and the stores alone: start requests, captured events, scan
\* reports, classification results, worker restarts.
NextStore ==
  \/ CrawlStart(DefaultDepth, 0)
  \/ CrawlRestart(DefaultDepth, 0)
  \/ StartCrawlTabQueried
  \/ StartCrawlSession
  \/ \E ok \in BOOLEAN : StartCrawlAttached(ok)
  \/ PageScanned([url |-> Seed, depth |-> 1,
                  internalLinks |-> <<PageA, PageB, PageC>>])
  \/ \E e \in DebuggerEvents : DebuggerEvent(e)
  \/ StoreAIResults
  \/ BrowserStartup
  \/ ExtensionReload

SpecStore == Init /\ [][NextStore]_vars

\* ------------------------------------------------- normalizeUrl on its own
\* URLs with query strings: keys "id" and "tag" (ranks 1 and 2), values
\* as written in the URL text
ParamKeys == {1, 2}
ParamValues == {"1", "a%20b"}
Params == ParamKeys \X ParamValues
ParamLists == UNION {[1..n -> Params] : n \in 0..MaxParams}
NotAUrl == U("", "not a url", <<>>, "")
NormUrls == {U(Ex, "/p", q, h) : q \in ParamLists, h \in {"", "top"}}
              \cup {NotAUrl}

InitNorm ==
  /\ InitCommon
  /\ embeddings = {}
  /\ tabUrl = Seed
  /\ tabStatus = "complete"
  /\ hung = NoUrl
  /\ \E u \in NormUrls, v \in NormUrls :
        norm = [NoNorm EXCEPT !.stage = "given", !.u = u, !.v = v]

NormFrame ==
  UNCHANGED <<maxDepth, pageLimit, origin, phase, schedVars,
              tabsUpdatePending, scanTimers, sends, scanning, tabUrl,
              tabStatus, contentScript, hung, errors, storeVars, attached,
              lastEvent, ragVars, aiVars>>

\* normalizeUrl(u) and normalizeUrl(v)
NormalizeBoth ==
  /\ norm.stage = "given"
  /\ norm' = [norm EXCEPT !.stage = "once", !.nu = normalizeUrl(norm.u),
                          !.nv = normalizeUrl(norm.v)]
  /\ NormFrame

\* normalizeUrl(normalizeUrl(u))
NormalizeAgain ==
  /\ norm.stage = "once"
  /\ norm' = [norm EXCEPT !.stage = "twice", !.nnu = normalizeUrl(norm.nu)]
  /\ NormFrame

NextNorm == NormalizeBoth \/ NormalizeAgain

SpecNorm == InitNorm /\ [][NextNorm]_vars

\* ------------------------------------------------ CASTRAG: the embedding index
CONCURRENT_BATCH_SIZE == 15

\* postData.slice(0, 200): the two long bodies share their first 200
\* characters
PostPreview(postData) ==
  IF postData \in {"long body A", "long body B"} THEN "long body" ELSE postData

getRequestSignature(requestData) ==
  <<requestData.host, requestData.pathname, requestData.method,
    requestData.queryParams, PostPreview(requestData.postData)>>

Call(id, path, post) ==
  [requestId |-> id, host |-> "t.example", pathname |-> path, method |-> "POST",
   queryParams |-> <<>>, postData |-> post]

\* captured calls: two requests
RagCalls == {Call(1, "/collect", "long body A"), Call(2, "/pixel", "")}
RagCallLists == UNION {[1..n -> RagCalls] : n \in 1..MaxCallList}
RagSessions == {1, 2}

\* getExistingEmbeddings
getExistingEmbeddings(sessionId) ==
  {getRequestSignature(r.requestData) :
     r \in {e \in embeddings : e.sessionId = sessionId}}

\* processNetworkCalls, the filter loop: a call goes on the list unless
\* its signature is among those read from the store at the start (the
\* list stays far below the 5000 requests after which only analytics and
\* tech-stack hosts are taken)
RECURSIVE RequestsToProcess(_, _)
RequestsToProcess(calls, existing) ==
  IF calls = <<>> THEN <<>>
  ELSE IF getRequestSignature(Head(calls)) \in existing
       THEN RequestsToProcess(Tail(calls), existing)
       ELSE <<Head(calls)>> \o RequestsToProcess(Tail(calls), existing)

RagFrame ==
  UNCHANGED <<maxDepth, pageLimit, origin, phase, schedVars,
              tabsUpdatePending, scanTimers, sends, scanning, tabUrl,
              tabStatus, contentScript, hung, errors, storeVars, norm,
              attached, lastEvent, aiVars>>

\* processNetworkCalls up to the first wave
ProcessNetworkCalls(networkCalls_, sessionId) ==
  /\ indexRun = NoRun
  /\ runs < MaxRuns
  /\ runs' = runs + 1
  /\ LET existing == getExistingEmbeddings(sessionId)
         todo == RequestsToProcess(networkCalls_, existing)
     IN indexRun' = IF todo = <<>> THEN NoRun
                    ELSE [sessionId |-> sessionId,
                          existingSignatures |-> existing,
                          requestsToProcess |-> todo, fetching |-> {},
                          done |-> {}]
  /\ UNCHANGED <<embeddings, embeddingCache, cacheStore, apiCalls>>
  /\ RagFrame

\* the first request of the wave in progress
WaveStart ==
  ((Cardinality(indexRun.done) \div CONCURRENT_BATCH_SIZE) * CONCURRENT_BATCH_SIZE) + 1

\* the wave without its end: every request not yet done
WaveToListEnd ==
  {i \in 1..Len(indexRun.requestsToProcess) : i >= WaveStart} \ indexRun.done

Wave ==
  {i \in 1..Len(indexRun.requestsToProcess) :
     i >= WaveStart /\ i < WaveStart + CONCURRENT_BATCH_SIZE} \ indexRun.done

\* requestToText: host, path, method, query and up to 500 characters of
\* the body (the bodies here are shorter)
requestToText(requestData) ==
  <<requestData.host, requestData.pathname, requestData.method,
    requestData.queryParams, requestData.postData>>

\* hashText, a 32-bit rolling hash of the text
hashText(text) == IF text[2] = "/pixel" THEN 12 ELSE 11

\* fallbackEmbedding: the character codes of the text summed by position
fallbackEmbedding(text) ==
  IF text[2] = "/pixel" THEN <<0, 1>>
  ELSE IF text[5] = "long body A" THEN <<2, 1>>
  ELSE <<1, 1>>

\* the embedding endpoint's vector for a text
embedContent(text) == IF text[2] = "/pixel" THEN <<1, 2>> ELSE <<1, 0>>

ApiVectors == {embedContent(requestToText(c)) : c \in RagCalls}

\* storeEmbedding and the rest of the request's task in the wave; after
\* the last request of the list processNetworkCalls returns
StoreEmbedding(i, embedding, run) ==
  /\ embeddings' = embeddings \cup
        {[id |-> Cardinality(embeddings) + 1, sessionId |-> run.sessionId,
          requestData |-> run.requestsToProcess[i], embedding |-> embedding]}
  /\ indexRun' =
       IF Cardinality(run.done) + 1 = Len(run.requestsToProcess)
       THEN NoRun
       ELSE [run EXCEPT !.done = @ \cup {i}, !.fetching = @ \ {i}]

\* a lookup that goes to the endpoint whatever the caches hold
CacheLookupSkipped(memory, persistent, cacheKey) == NoVector

\* createEmbedding, the lookups: the in-memory cache, then the persistent
\* cache
CacheLookup(memory, persistent, cacheKey) ==
  IF memory[cacheKey] # NoVector THEN memory[cacheKey]
  ELSE persistent[cacheKey]

\* one request of the wave: createEmbedding up to the fetch, or, on a
\* cache hit, to the stored record
CreateEmbedding(i) ==
  /\ indexRun # NoRun
  /\ i \in Wave \ indexRun.fetching
  /\ LET requestData == indexRun.requestsToProcess[i]
         cacheKey == hashText(requestToText(requestData))
         cached == CacheLookup(embeddingCache, cacheStore, cacheKey)
     IN IF cached # NoVector
        THEN /\ embeddingCache' = [embeddingCache EXCEPT ![cacheKey] = cached]
             /\ StoreEmbedding(i, cached, indexRun)
             /\ UNCHANGED apiCalls
        ELSE /\ indexRun' = [indexRun EXCEPT !.fetching = @ \cup {i}]
             /\ apiCalls' = apiCalls + 1
             /\ UNCHANGED <<embeddings, embeddingCache>>
  /\ UNCHANGED <<runs, cacheStore>>
  /\ RagFrame

\* createEmbedding from the endpoint's answer on: a vector goes into both
\* caches, an error (not ok) gives the fallback vector; then the record is
\* stored
EmbeddingFetched(i, ok) ==
  /\ indexRun # NoRun
  /\ i \in indexRun.fetching
  /\ LET text == requestToText(indexRun.requestsToProcess[i])
         cacheKey == hashText(text)
         embedding == embedContent(text)
     IN IF ok
        THEN /\ embeddingCache' = [embeddingCache EXCEPT ![cacheKey] = embedding]
             /\ cacheStore' = [cacheStore EXCEPT ![cacheKey] = embedding]
             /\ StoreEmbedding(i, embedding, indexRun)
        ELSE /\ UNCHANGED <<embeddingCache, cacheStore>>
             /\ StoreEmbedding(i, fallbackEmbedding(text), indexRun)
  /\ UNCHANGED <<runs, apiCalls>>
  /\ RagFrame

\* a new CASTRAG instance: the in-memory cache starts empty
RagConstructed ==
  /\ indexRun = NoRun
  /\ embeddingCache # NoCache
  /\ embeddingCache' = NoCache
  /\ UNCHANGED <<embeddings, indexRun, runs, cacheStore, apiCalls>>
  /\ RagFrame

NextRag ==
  \/ \E cs \in RagCallLists, sid \in RagSessions : ProcessNetworkCalls(cs, sid)
  \/ \E i \in 1..MaxCallList : CreateEmbedding(i)
  \/ \E i \in 1..MaxCallList, ok \in BOOLEAN : EmbeddingFetched(i, ok)
  \/ RagConstructed

InitRag ==
  /\ Init
  /\ tabUrl = Seed
  /\ tabStatus = "complete"

SpecRag == InitRag /\ [][NextRag]_vars

\* ------------------------------------------- CASTRAG: a run of two waves
\* one call list longer than a wave: CONCURRENT_BATCH_SIZE requests with
\* one text and one more with another
WaveList ==
  [i \in 1..(CONCURRENT_BATCH_SIZE + 1) |->
     IF i <= CONCURRENT_BATCH_SIZE THEN Call(1, "/collect", "long body A")
     ELSE Call(2, "/pixel", "")]

\* records stored with the fallback vector: the endpoint failed for them
Failures == {r \in embeddings : r.embedding \notin ApiVectors}

\* batch.map enters createEmbedding for the requests of the wave in index
\* order.  The calls in flight in a wave carry one text and are
\* interchangeable, so of the orders in which their answers can come the
\* index order stands for all; any of the answers may be the failed one
NextWave ==
  \/ ProcessNetworkCalls(WaveList, 1)
  \/ \E i \in 1..Len(WaveList) :
        /\ \A j \in Wave : j < i => j \in indexRun.fetching
        /\ CreateEmbedding(i)
  \/ \E i \in 1..Len(WaveList), ok \in BOOLEAN :
        /\ \A j \in indexRun.fetching : j >= i
        /\ ok \/ Cardinality(Failures) < MaxFailures
        /\ EmbeddingFetched(i, ok)

SpecWave == InitRag /\ [][NextWave]_vars

\* --------------------------------------------- CASTRAG: similarity search
\* searchSimilar's BATCH_SIZE
BATCH_SIZE == 1000

\* cosineSimilarity: 0 for vectors of different lengths, else
\* dot / (sqrt(normA) * sqrt(normB)). The vectors here have no negative
\* component, so the value is kept as its square, the fraction
\* <<dot * dot, normA * normB>>, which orders the same way.
Dot(vecA, vecB) == vecA[1] * vecB[1] + vecA[2] * vecB[2]

cosineSimilarity(vecA, vecB) ==
  IF Len(vecA) # Len(vecB) THEN <<0, 1>>
  ELSE <<Dot(vecA, vecB) * Dot(vecA, vecB), Dot(vecA, vecA) * Dot(vecB, vecB)>>

\* a.similarity < b.similarity, a.similarity <= b.similarity
SimLess(a, b) == a[1] * b[2] < b[1] * a[2]

SimLeq(a, b) == a[1] * b[2] <= b[1] * a[2]

Swap(heap, i, j) == [heap EXCEPT ![i] = heap[j], ![j] = heap[i]]

\* MinHeap.bubbleUp; the array is indexed from 1 here, so the parent of
\* index is index \div 2
RECURSIVE bubbleUp(_, _)
bubbleUp(heap, index) ==
  IF index <= 1 THEN heap
  ELSE LET parent == index \div 2
       IN IF SimLeq(heap[parent].similarity, heap[index].similarity) THEN heap
          ELSE bubbleUp(Swap(heap, parent, index), parent)

\* MinHeap.bubbleDown; the children of index are 2 * index and 2 * index + 1
RECURSIVE bubbleDown(_, _)
bubbleDown(heap, index) ==
  LET left == 2 * index
      right == 2 * index + 1
      s1 == IF left <= Len(heap)
               /\ SimLess(heap[left].similarity, heap[index].similarity)
            THEN left ELSE index
      smallest == IF right <= Len(heap)
                     /\ SimLess(heap[right].similarity, heap[s1].similarity)
                  THEN right ELSE s1
  IN IF smallest = index THEN heap
     ELSE bubbleDown(Swap(heap, index, smallest), smallest)

\* MinHeap.push
HeapPush(heap, maxSize, item) ==
  IF Len(heap) < maxSize THEN bubbleUp(Append(heap, item), Len(heap) + 1)
  ELSE IF SimLess(heap[1].similarity, item.similarity)
       THEN bubbleDown([heap EXCEPT ![1] = item], 1)
       ELSE heap

\* for (const item of batch) heap.push(item): the items from..to of the
\* batch in their order; the range is halved, and the lower half pushed
\* first (the heap never outgrows maxSize), to keep the evaluation shallow
RECURSIVE PushRange(_, _, _, _, _)
PushRange(heap, maxSize, batch, from, to) ==
  IF from > to THEN heap
  ELSE IF from = to THEN HeapPush(heap, maxSize, batch[from])
  ELSE LET mid == (from + to) \div 2
           lower == PushRange(heap, maxSize, batch, from, mid)
       IN IF Len(lower) <= maxSize
          THEN PushRange(lower, maxSize, batch, mid + 1, to)
          ELSE lower

PushBatch(heap, maxSize, batch) == PushRange(heap, maxSize, batch, 1, Len(batch))

\* Array.prototype.sort with (a, b) => b.similarity - a.similarity: a stable
\* sort, highest similarity first
RECURSIVE InsertBySimilarity(_, _)
InsertBySimilarity(sorted, item) ==
  IF sorted = <<>> THEN <<item>>
  ELSE IF SimLess(sorted[Len(sorted)].similarity, item.similarity)
       THEN Append(InsertBySimilarity(SubSeq(sorted, 1, Len(sorted) - 1), item),
                   sorted[Len(sorted)])
       ELSE Append(sorted, item)

RECURSIVE SortFrom(_, _, _)
SortFrom(heap, from, sorted) ==
  IF from > Len(heap) THEN sorted
  ELSE SortFrom(heap, from + 1, InsertBySimilarity(sorted, heap[from]))

\* MinHeap.getSorted
getSorted(heap) == SortFrom(heap, 1, <<>>)

\* results.slice(0, limit)
Slice(results, limit) ==
  SubSeq(results, 1, IF Len(results) < limit THEN Len(results) ELSE limit)

\* the record the cursor is at
RecordAt(id) == CHOOSE r \in embeddings : r.id = id

\* the key of the session's next record after key id, 0 at the end of the
\* range
NextOfSession(sessionId, id) ==
  LET later == {r.id : r \in {e \in embeddings :
                                e.sessionId = sessionId /\ e.id > id}}
  IN IF later = {} THEN 0
     ELSE IF id + 1 \in later THEN id + 1
     ELSE CHOOSE a \in later : \A b \in later : a <= b

\* the search touches nothing but its own state
AiFrame ==
  UNCHANGED <<maxDepth, pageLimit, origin, phase, schedVars,
              tabsUpdatePending, scanTimers, sends, scanning, tabUrl,
              tabStatus, contentScript, hung, errors, storeVars, norm,
              attached, lastEvent, ragVars>>

\* searchSimilar up to index.openCursor(IDBKeyRange.only(sessionId))
SearchSimilar(queryEmbedding, sessionId, limit) ==
  /\ search.stage = "none"
  /\ search' = [NoSearch EXCEPT !.stage = "scanning",
                                !.queryEmbedding = queryEmbedding,
                                !.sessionId = sessionId,
                                !.limit = limit,
                                !.cursor = NextOfSession(sessionId, 0)]
  /\ UNCHANGED <<analysis, batchRun, aiRun, sessionResults, csv>>
  /\ AiFrame

\* request.onsuccess: the end of the range resolves the promise with the
\* top of the heap; a record is scored and joins the batch, a full batch is
\* pushed into the heap and cursor.continue() is put on a timer, otherwise
\* the cursor continues at once. An item is the record with its similarity;
\* of the record's fields only the key is kept here.
CursorSuccess ==
  /\ search.stage = "scanning"
  /\ IF search.cursor = 0
     THEN LET heap == PushBatch(search.heap, 2 * search.limit, search.batch)
          IN search' = [search EXCEPT
                          !.stage = "done",
                          !.heap = getSorted(heap),
                          !.results = Slice(getSorted(heap), search.limit)]
     ELSE LET record == RecordAt(search.cursor)
              item == [id |-> record.id,
                       similarity |-> cosineSimilarity(search.queryEmbedding,
                                                       record.embedding)]
              batch == Append(search.batch, item)
          IN IF Len(batch) >= BATCH_SIZE
             THEN search' = [search EXCEPT
                               !.stage = "yield",
                               !.processed = @ + 1,
                               !.heap = PushBatch(@, 2 * search.limit, batch),
                               !.batch = <<>>]
             ELSE search' = [search EXCEPT
                               !.processed = @ + 1,
                               !.batch = batch,
                               !.cursor = NextOfSession(search.sessionId, @)]
  /\ UNCHANGED <<analysis, batchRun, aiRun, sessionResults, csv>>
  /\ AiFrame

\* the timer's cursor.continue(): the transaction finished when the
\* onsuccess handler returned without a new request, so the call throws
\* TransactionInactiveError inside the timer callback; no further success
\* or error event comes and the promise is never settled
ContinueTimer ==
  /\ search.stage = "yield"
  /\ search' = [search EXCEPT !.stage = "failed"]
  /\ UNCHANGED <<analysis, batchRun, aiRun, sessionResults, csv>>
  /\ AiFrame

\* what indexing runs can leave in the embeddings store: per record a
\* session, a captured call and its vector, from the endpoint or the fallback
IndexEntries ==
  {<<sid, c, e>> : sid \in RagSessions, c \in RagCalls,
                   e \in {<<1, 0>>, <<1, 2>>, <<0, 1>>, <<2, 1>>}} \cap
  UNION {{<<sid, c, embedContent(requestToText(c))>>,
          <<sid, c, fallbackEmbedding(requestToText(c))>>} :
           sid \in RagSessions, c \in RagCalls}

IndexOf(f) ==
  {[id |-> i, sessionId |-> f[i][1], requestData |-> f[i][2],
    embedding |-> f[i][3]] : i \in DOMAIN f}

SmallIndexes ==
  {IndexOf(f) : f \in UNION {[1..n -> IndexEntries] : n \in 0..MaxRecords}}

\* a session of n distinct requests (they differ in a query parameter), all
\* indexed while the embedding endpoint was failing
FallbackRequest(i) ==
  [(IF i % 2 = 1 THEN Call(i, "/collect", "long body A")
                 ELSE Call(i, "/pixel", ""))
     EXCEPT !.queryParams = <<<<"cb", i>>>>]

FallbackIndex(n) ==
  {[id |-> i, sessionId |-> 1, requestData |-> FallbackRequest(i),
    embedding |-> fallbackEmbedding(requestToText(FallbackRequest(i)))] :
     i \in 1..n}

\* query vectors
QueryEmbeddings == {<<1, 0>>, <<1, 1>>}

InitSearch ==
  /\ InitCommon
  /\ tabUrl = Seed
  /\ tabStatus = "complete"
  /\ hung = NoUrl
  /\ norm = NoNorm
  /\ embeddings \in SmallIndexes
                     \cup {FallbackIndex(BATCH_SIZE - 1), FallbackIndex(BATCH_SIZE)}

NextSearch ==
  \/ \E q \in QueryEmbeddings, sid \in RagSessions, limit \in 1..MaxK :
        SearchSimilar(q, sid, limit)
  \/ CursorSuccess
  \/ ContinueTimer

SpecSearch == InitSearch /\ [][NextSearch]_vars

\* ------------------------------------- deduplication of analytics requests
\* hosts: one the analytics pattern matches, one it does not (neither
\* matches the tech-stack pattern)
AnalyticsHost == "www.google-analytics.com"
OtherHost == "t.example"

\* /(google-analytics|...)/i.test(host)
IsAnalytics(host) == host = AnalyticsHost

\* a POST body is a sequence of blocks of 100 characters; <<>> is no body
BodyBlocks == {"a", "b"}
PostBodies == {<<>>} \cup [1..3 -> BodyBlocks]

\* postData.slice(0, 100) of retrieveForAnalysis and
\* postData.slice(0, 200) of buildRAGPayload
SliceBlocks(postData, blocks) ==
  SubSeq(postData, 1, IF Len(postData) < blocks THEN Len(postData) ELSE blocks)

\* a key that leaves the body out
AnalyticsKeyNoBody(r) == <<r.host, r.pathname, r.queryParams, <<>>>>

\* retrieveForAnalysis: the analytics key, host + pathname + query + the
\* first 100 characters of the body
AnalyticsKey(r) ==
  <<r.host, r.pathname, r.queryParams, SliceBlocks(r.postData, 1)>>

\* buildRAGPayload: requestKey, with the first 200 characters of the body
\* for analytics hosts and no body for the others
requestKey(request) ==
  <<request.host, request.pathname, request.queryParams,
    IF IsAnalytics(request.host) THEN SliceBlocks(request.postData, 2)
    ELSE <<>>>>

\* the requests a search hands back above the similarity threshold
HitRequests ==
  [host : {AnalyticsHost, OtherHost}, pathname : {"/collect"},
   queryParams : {<<>>, <<<<"v", "2">>>>}, postData : PostBodies]

HitLists == UNION {[1..n -> HitRequests] : n \in 0..MaxHits}

\* filter(r => { if (seen.has(key)) return false; seen.add(key); return
\* true }) over a list whose keys are given
RECURSIVE FirstOfEachKey(_, _, _)
FirstOfEachKey(list, keys, i) ==
  IF i > Len(list) THEN <<>>
  ELSE (IF \E j \in 1..(i - 1) : keys[j] = keys[i] THEN <<>> ELSE <<list[i]>>)
         \o FirstOfEachKey(list, keys, i + 1)

\* results.analytics of the hits: those of analytics hosts
RECURSIVE AnalyticsOf(_)
AnalyticsOf(hits) ==
  IF hits = <<>> THEN <<>>
  ELSE (IF IsAnalytics(Head(hits).host) THEN <<Head(hits)>> ELSE <<>>)
         \o AnalyticsOf(Tail(hits))

\* nothing but the deduplication state changes
DedupFrame ==
  /\ UNCHANGED <<search, batchRun, aiRun, sessionResults, csv>>
  /\ AiFrame

\* retrieveForAnalysis from the search results on: bucket the hits, merge,
\* deduplicate the analytics bucket
RetrieveForAnalysis ==
  /\ analysis.stage = "none"
  /\ \E hits \in HitLists :
       LET merged == AnalyticsOf(hits)
       IN analysis' = [analysis EXCEPT
                         !.stage = "retrieved",
                         !.hits = hits,
                         !.analytics =
                            FirstOfEachKey(merged,
                                           [i \in 1..Len(merged) |->
                                              AnalyticsKey(merged[i])], 1),
                         !.allRelevant = hits]
  /\ DedupFrame

\* buildRAGPayload: uniqueRequests of analytics, techStack (empty here)
\* and allRelevant; the bodies are shorter than the truncation caps and the
\* lists shorter than the global caps
BuildRAGPayload ==
  /\ analysis.stage = "retrieved"
  /\ LET all == analysis.analytics \o analysis.allRelevant
     IN analysis' = [analysis EXCEPT
                       !.stage = "payload",
                       !.uniqueRequests =
                          FirstOfEachKey(all,
                                         [i \in 1..Len(all) |->
                                            requestKey(all[i])], 1)]
  /\ DedupFrame

\* String.prototype.toLowerCase on the provider names used here
ToLowerCase(str) ==
  IF str = "GA4" THEN "ga4" ELSE IF str = "React" THEN "react" ELSE str

\* classified analytics events as the model returns them
AnalyticsEvents ==
  [provider : {"GA4", "ga4"}, event_name : {"page_view", "purchase"},
   page_url : {"https://ex.test/"},
   request_url : {"https://www.google-analytics.com/collect"},
   notes : {"", "batched"}]

EventLists == UNION {[1..n -> AnalyticsEvents] : n \in 0..MaxEvents}

\* dedupeAnalyticsRecords: the key of an item
EventKey(item) ==
  <<ToLowerCase(item.provider), ToLowerCase(item.event_name),
    ToLowerCase(item.page_url), ToLowerCase(item.request_url),
    ToLowerCase(item.notes)>>

\* dedupeAnalyticsRecords: the map after the first i items, its entries in
\* insertion order
RECURSIVE EventMap(_, _)
EventMap(records, i) ==
  IF i = 0 THEN <<>>
  ELSE LET map == EventMap(records, i - 1)
           item == records[i]
           at == {k \in 1..Len(map) : map[k].key = EventKey(item)}
       IN IF at = {}
          THEN Append(map, [key |-> EventKey(item),
                            value |-> [provider |-> item.provider,
                                       event_name |-> item.event_name,
                                       page_url |-> item.page_url,
                                       request_url |-> item.request_url,
                                       notes |-> item.notes,
                                       occurrences |-> 1]])
          ELSE [k \in 1..Len(map) |->
                  IF k \in at THEN [map[k] EXCEPT !.value.occurrences = @ + 1]
                  ELSE map[k]]

\* dedupeAnalyticsRecords: Array.from(map.values())
dedupeAnalyticsRecords(records) ==
  LET map == EventMap(records, Len(records))
  IN [k \in 1..Len(map) |-> map[k].value]

\* consolidateStoredResults: the analytics events of the session, deduplicated
ConsolidateAnalytics ==
  /\ analysis.stage = "none"
  /\ \E records \in EventLists :
       analysis' = [analysis EXCEPT
                      !.stage = "consolidated",
                      !.records = records,
                      !.deduped = dedupeAnalyticsRecords(records)]
  /\ DedupFrame

InitDedup ==
  /\ Init
  /\ tabUrl = Seed
  /\ tabStatus = "complete"

NextDedup ==
  \/ RetrieveForAnalysis
  \/ BuildRAGPayload
  \/ ConsolidateAnalytics

SpecDedup == InitDedup /\ [][NextDedup]_vars

\* ---------------------------------- processBatchesDirect: batches, payloads
\* processBatchesDirect's MAX_TOKENS_PER_BATCH and baseOverhead
MAX_TOKENS_PER_BATCH == 100000
baseOverhead == 2000

\* buildBatchPayload's caps on a POST body, and the length of the marker
\* '...[truncated]' it appends
MAX_POST_BODY_SIZE == 8000
MAX_ANALYTICS_POST_BODY_SIZE == 20000
TruncatedMarkerLength == 14

\* the hard check of processBatchesDirect: characters of the serialized
\* payload, and the token limit it trims to
HardCheckLength == 3500000
AggressiveTrimTokens == 200000

\* Math.ceil(n / 4)
CeilQuarter(n) == (n + 3) \div 4

\* A captured call, its strings given by their lengths (postData 0: no
\* body). A data: URL has an empty host and the rest as pathname.
NetworkCall(url, method, host, pathname, queryParams, postData, analytics, pageUrl) ==
  [url |-> url, method |-> method, host |-> host, pathname |-> pathname,
   queryParams |-> queryParams, postData |-> postData,
   analytics |-> analytics, pageUrl |-> pageUrl]

SmallCall == NetworkCall(40, 3, 15, 10, 2, 0, FALSE, "page1")
AnalyticsCall == NetworkCall(45, 4, 24, 10, 30, 8001, TRUE, "page1")
LongBodyCall == NetworkCall(30, 4, 9, 10, 2, 8001, FALSE, "page2")
NearLimitCall == NetworkCall(383955, 3, 0, 383950, 2, 0, FALSE, "page1")
OversizedCall == NetworkCall(420000, 3, 0, 419995, 2, 0, FALSE, "page2")
GiantCall == NetworkCall(1800000, 3, 0, 1799995, 2, 0, FALSE, "page1")

NetworkCalls == {SmallCall, AnalyticsCall, LongBodyCall, NearLimitCall,
                 OversizedCall, GiantCall}

NetworkCallLists == UNION {[1..n -> NetworkCalls] : n \in 0..MaxBatchCalls}

\* pageUrl.length
PageUrlLength(pageUrl) == 20

\* processBatchesDirect: callTokens of a call, the body at its full length
callTokens(call) ==
  CeilQuarter(call.url + call.method + call.queryParams + call.postData)

\* processBatchesDirect: the split loop from call k on; a batch is the list
\* of the positions of its calls in networkCalls
RECURSIVE SplitFrom(_, _, _, _, _)
SplitFrom(calls, k, batches, currentBatch, currentBatchTokens) ==
  IF k > Len(calls)
  THEN IF Len(currentBatch) > 0 THEN Append(batches, currentBatch) ELSE batches
  ELSE IF currentBatchTokens + callTokens(calls[k]) + baseOverhead
             > MAX_TOKENS_PER_BATCH
          /\ Len(currentBatch) > 0
       THEN SplitFrom(calls, k + 1, Append(batches, currentBatch), <<k>>,
                      callTokens(calls[k]))
       ELSE SplitFrom(calls, k + 1, batches, Append(currentBatch, k),
                      currentBatchTokens + callTokens(calls[k]))

\* buildBatchPayload: the body as it goes into the payload, cut to the cap
\* of its host class with the marker appended
TruncatedPostData(call) ==
  LET maxPostSize == IF call.analytics THEN MAX_ANALYTICS_POST_BODY_SIZE
                     ELSE MAX_POST_BODY_SIZE
  IN IF call.postData > maxPostSize THEN maxPostSize + TruncatedMarkerLength
     ELSE call.postData

\* buildBatchPayload: callTokens of a call
PayloadCallTokens(call) ==
  CeilQuarter(call.url + call.method + call.queryParams + TruncatedPostData(call))

\* page.requests.push(...) on the page of pageUrl, made if it is new
PushRequest(pages, pageUrl, request) ==
  IF \E p \in 1..Len(pages) : pages[p].pageUrl = pageUrl
  THEN [p \in 1..Len(pages) |->
          IF pages[p].pageUrl = pageUrl
          THEN [pages[p] EXCEPT !.requests = Append(@, request)]
          ELSE pages[p]]
  ELSE Append(pages, [pageUrl |-> pageUrl, requests |-> <<request>>])

\* the requests of a payload, page after page
RECURSIVE RequestsOf(_)
RequestsOf(pages) ==
  IF pages = <<>> THEN <<>> ELSE Head(pages).requests \o RequestsOf(Tail(pages))

\* updatePayloadSummary, and the summary buildBatchPayload ends with
Summary(pages) ==
  LET requests == RequestsOf(pages)
      analyticsCalls == Cardinality({r \in 1..Len(requests) : requests[r].analytics})
  IN [totalCalls |-> Len(requests), analyticsCalls |-> analyticsCalls,
      otherCalls |-> Len(requests) - analyticsCalls]

\* buildBatchPayload: the loop from the j-th call of the batch on
RECURSIVE BuildFrom(_, _, _, _, _, _)
BuildFrom(calls, batch, j, pages, estimatedTokens, maxTokens) ==
  IF j > Len(batch)
  THEN [pages |-> pages, summary |-> Summary(pages),
        estimatedTokens |-> estimatedTokens]
  ELSE LET call == calls[batch[j]]
       IN IF estimatedTokens + PayloadCallTokens(call) + baseOverhead > maxTokens
             /\ Len(pages) > 0
          THEN [pages |-> pages, summary |-> Summary(pages),
                estimatedTokens |-> estimatedTokens]
          ELSE BuildFrom(calls, batch, j + 1,
                         PushRequest(pages, call.pageUrl,
                                     [call |-> batch[j], url |-> call.url,
                                      method |-> call.method, host |-> call.host,
                                      pathname |-> call.pathname,
                                      queryParams |-> call.queryParams,
                                      postData |-> TruncatedPostData(call),
                                      analytics |-> call.analytics]),
                         estimatedTokens + PayloadCallTokens(call), maxTokens)

buildBatchPayload(calls, batch, maxTokens) ==
  BuildFrom(calls, batch, 1, <<>>, 0, maxTokens)

\* the number of decimal digits of n
RECURSIVE Digits(_)
Digits(n) == IF n < 10 THEN 1 ELSE 1 + Digits(n \div 10)

\* JSON.stringify(x).length: the keys and punctuation of each object plus
\* its strings (no character of the strings here needs an escape); a body
\* of length 0 is null
RequestJsonLength(r) ==
  73 + r.url + r.method + r.host + r.pathname + r.queryParams
     + (IF r.postData = 0 THEN 4 ELSE r.postData + 2)

RECURSIVE ListJsonLength(_, _)
ListJsonLength(lengths, i) ==
  IF i > Len(lengths) THEN 0
  ELSE lengths[i] + (IF i > 1 THEN 1 ELSE 0) + ListJsonLength(lengths, i + 1)

PageJsonLength(page) ==
  28 + PageUrlLength(page.pageUrl)
     + ListJsonLength([r \in 1..Len(page.requests) |->
                         RequestJsonLength(page.requests[r])], 1)

PayloadJsonLength(payload) ==
  89 + ListJsonLength([p \in 1..Len(payload.pages) |->
                         PageJsonLength(payload.pages[p])], 1)
     + Digits(payload.summary.totalCalls)
     + Digits(payload.summary.analyticsCalls)
     + Digits(payload.summary.otherCalls)
     + Digits(payload.estimatedTokens)

estimateTokensForPayload(payload) == CeilQuarter(PayloadJsonLength(payload))

\* trimPayloadToLimit: pages.pop() while more than one page is left and the
\* payload is over the limit
RECURSIVE PopPages(_, _)
PopPages(payload, maxTokens) ==
  IF Len(payload.pages) > 1 /\ estimateTokensForPayload(payload) > maxTokens
  THEN PopPages([payload EXCEPT !.pages = SubSeq(@, 1, Len(@) - 1)], maxTokens)
  ELSE payload

\* trimPayloadToLimit: page.requests.pop() while more than one request is
\* left and the payload is over the limit
RECURSIVE PopRequests(_, _)
PopRequests(payload, maxTokens) ==
  IF Len(payload.pages[1].requests) > 1
       /\ estimateTokensForPayload(payload) > maxTokens
  THEN PopRequests([payload EXCEPT
                      !.pages[1].requests = SubSeq(@, 1, Len(@) - 1)], maxTokens)
  ELSE payload

trimPayloadToLimit(payload, maxTokens) ==
  IF Len(payload.pages) = 0 THEN payload
  ELSE IF estimateTokensForPayload(payload) <= maxTokens THEN payload
  ELSE LET popped == PopPages(payload, maxTokens)
           trimmed == IF estimateTokensForPayload(popped) > maxTokens
                         /\ Len(popped.pages) = 1
                      THEN PopRequests(popped, maxTokens)
                      ELSE popped
       IN [trimmed EXCEPT !.summary = Summary(trimmed.pages)]

\* processBatchesDirect, one batch from buildBatchPayload to the payload
\* handed to callGemini
SubmittedPayload(calls, batch) ==
  LET payload == buildBatchPayload(calls, batch, MAX_TOKENS_PER_BATCH)
      payloadTokens == IF payload.estimatedTokens # 0
                       THEN payload.estimatedTokens
                       ELSE estimateTokensForPayload(payload)
      trimmed == IF payloadTokens > MAX_TOKENS_PER_BATCH
                 THEN trimPayloadToLimit(payload, MAX_TOKENS_PER_BATCH)
                 ELSE payload
  IN IF PayloadJsonLength(trimmed) > HardCheckLength
     THEN trimPayloadToLimit(trimmed, AggressiveTrimTokens)
     ELSE trimmed

\* nothing but the batch state changes
BatchFrame ==
  /\ UNCHANGED <<search, analysis, aiRun, sessionResults, csv>>
  /\ AiFrame

\* processBatchesDirect up to the batch loop: the calls are split
ProcessBatchesDirect ==
  /\ batchRun.stage = "none"
  /\ \E calls \in NetworkCallLists :
       LET batches == SplitFrom(calls, 1, <<>>, <<>>, 0)
       IN batchRun' = [stage |-> IF batches = <<>> THEN "done" ELSE "batches",
                       networkCalls |-> calls, batches |-> batches, i |-> 1,
                       submitted |-> <<>>]
  /\ BatchFrame

\* one turn of the batch loop up to callGemini(apiKey, payload); the call
\* and the storage of its result are followed in aiRun
BatchSubmitted ==
  /\ batchRun.stage = "batches"
  /\ LET payload == SubmittedPayload(batchRun.networkCalls,
                                     batchRun.batches[batchRun.i])
     IN batchRun' = [batchRun EXCEPT
                       !.stage = IF batchRun.i = Len(batchRun.batches)
                                 THEN "done" ELSE "batches",
                       !.i = @ + 1,
                       !.submitted =
                          IF Len(payload.pages) = 0 THEN @
                          ELSE Append(@, [batch |-> batchRun.i,
                                          payload |-> payload])]
  /\ BatchFrame

InitBatch ==
  /\ Init
  /\ tabUrl = Seed
  /\ tabStatus = "complete"

NextBatch ==
  \/ ProcessBatchesDirect
  \/ BatchSubmitted

SpecBatch == InitBatch /\ [][NextBatch]_vars

\* ------------------------------------------------- the analysis run
\* processBatchesDirect's batch loop, callGemini and storeAIResults for
\* each "ai-summary" request. A request's record holds the loop index i
\* (the batch being processed, 1-based), batches.length n, callGemini's
\* attempt, the number of fetch calls made for batch i, the delay of the
\* pending sleep, and per batch what became of it: "none", "result" (the
\* model's answer had tech_stack and analytics_events), "noResults" (it
\* lacked one of them), "modelError" (callGemini threw) or "batchError"
\* (reading or storing the answer threw). cancelAt is the loop index at
\* the first "ai-cancel" received while the request was answered, -1 when
\* none was.
MAX_RETRIES == 3
AiSession == "session_1"

\* what the fetch of callGemini settles with: a parsed answer with both
\* lists, a parsed object lacking one, a parsed null, a rejected fetch
\* ('Failed to fetch'), or a response that is not ok, has no content or
\* does not parse
GeminiAnswers == {"result", "incomplete", "null", "networkError", "apiError"}

isLastAttemptLate(attempt) == attempt > MAX_RETRIES
isLastAttempt(attempt) == attempt >= MAX_RETRIES

RetryDelay(isNetworkError, attempt) ==
  IF isNetworkError THEN 2000 * attempt ELSE 500 * attempt

ResultRecord(r, i, store) ==
  [sessionId |-> AiSession, batchId |-> <<r, i>>, store |-> store]

Active(run) == run.stage \notin {"none", "done"}

\* the top of the batch loop for the next index: the loop ends after the
\* last batch or when aiCancelRequested is set, otherwise the payload is
\* built and callGemini(apiKey, payload) makes its first fetch
NextIteration(run, cancelRequested) ==
  IF run.i + 1 > run.n \/ cancelRequested
  THEN [run EXCEPT !.stage = "done", !.attempt = 0, !.calls = 0, !.delay = 0]
  ELSE [run EXCEPT !.stage = "calling", !.i = @ + 1, !.attempt = 1,
                   !.calls = 1, !.delay = 0]

\* catch (error) of the loop body: the error is logged and the loop goes
\* on with the next batch
CatchBatchErrorAbort(run, outcome, cancelRequested) ==
  [run EXCEPT !.outcome[run.i] = outcome, !.stage = "done"]
CatchBatchError(run, outcome, cancelRequested) ==
  NextIteration([run EXCEPT !.outcome[run.i] = outcome], cancelRequested)

\* await storeAIResults(sessionId, batchId, ...): the loop waits for the
\* writes
StoreResultsUnawaited(run, cancelRequested) ==
  NextIteration([run EXCEPT !.outcome[run.i] = "result"], cancelRequested)
StoreResults(run, cancelRequested) ==
  [run EXCEPT !.outcome[run.i] = "result", !.stage = "storingTech"]

RunFrame ==
  /\ UNCHANGED <<search, analysis, batchRun, sessionResults, csv>>
  /\ AiFrame

\* the "ai-summary" handler once chrome.storage.local.get answered with
\* an API key: the cancel flag is reset and the calls are collected
AiSummary(r) ==
  /\ aiRun.runs[r].stage = "none"
  /\ aiRun' = [aiRun EXCEPT !.aiCancelRequested = FALSE,
                            !.runs[r].stage = "preparing"]
  /\ RunFrame

\* processBatchesDirect(apiKey, filteredCalls, ...): the calls are split
\* into n batches and the loop starts
ProcessBatchesStart(r) ==
  /\ aiRun.runs[r].stage = "preparing"
  /\ \E n \in 0..MaxBatches :
       aiRun' = [aiRun EXCEPT !.runs[r] =
                   NextIteration([@ EXCEPT !.n = n, !.i = 0,
                                           !.outcome = [j \in 1..n |-> "none"]],
                                 aiRun.aiCancelRequested)]
  /\ RunFrame

\* the fetch of callGemini settles
GeminiSettled(r) ==
  /\ aiRun.runs[r].stage = "calling"
  /\ \E answer \in GeminiAnswers :
       LET run == aiRun.runs[r]
           cancelRequested == aiRun.aiCancelRequested
           isNetworkError == answer = "networkError"
           delay == RetryDelay(isNetworkError, run.attempt)
       IN CASE answer = "result" ->
                 aiRun' = [aiRun EXCEPT
                             !.runs[r] = StoreResults(run, cancelRequested)]
            [] answer = "incomplete" ->
                 aiRun' = [aiRun EXCEPT !.runs[r] =
                             NextIteration([run EXCEPT !.outcome[run.i] = "noResults"],
                                           cancelRequested)]
            [] answer = "null" ->
                 aiRun' = [aiRun EXCEPT !.runs[r] =
                             CatchBatchError(run, "batchError", cancelRequested)]
            [] OTHER ->
                 IF isLastAttempt(run.attempt)
                 THEN aiRun' = [aiRun EXCEPT !.runs[r] =
                                  CatchBatchError(run, "modelError", cancelRequested)]
                 ELSE aiRun' = [aiRun EXCEPT
                                  !.runs[r].stage = "sleeping",
                                  !.runs[r].delay = delay,
                                  !.slept = @ \cup {[attempt |-> run.attempt,
                                                     isNetworkError |-> isNetworkError,
                                                     delay |-> delay]}]
  /\ RunFrame

\* sleep(delay) is over: callGemini(apiKey, networkPayload, attempt + 1)
SleepDone(r) ==
  /\ aiRun.runs[r].stage = "sleeping"
  /\ aiRun' = [aiRun EXCEPT !.runs[r].stage = "calling",
                            !.runs[r].attempt = @ + 1,
                            !.runs[r].calls = @ + 1,
                            !.runs[r].delay = 0]
  /\ RunFrame

\* the add requests of one store of storeAIResults settle: techStackResults
\* first, then analyticsEventsResults
StoreSettled(r) ==
  /\ aiRun.runs[r].stage \in {"storingTech", "storingAnalytics"}
  /\ \E ok \in BOOLEAN :
       LET run == aiRun.runs[r]
           cancelRequested == aiRun.aiCancelRequested
       IN IF ~ok
          THEN aiRun' = [aiRun EXCEPT !.runs[r] =
                           CatchBatchError(run, "batchError", cancelRequested)]
          ELSE IF run.stage = "storingTech"
          THEN aiRun' = [aiRun EXCEPT
                           !.results = @ \cup {ResultRecord(r, run.i, "techStackResults")},
                           !.runs[r].stage = "storingAnalytics"]
          ELSE aiRun' = [aiRun EXCEPT
                           !.results = @ \cup {ResultRecord(r, run.i, "analyticsEventsResults")},
                           !.runs[r] = NextIteration(run, cancelRequested)]
  /\ RunFrame

\* the "ai-cancel" handler
AiCancel ==
  /\ aiRun' = [aiRun EXCEPT
                 !.aiCancelRequested = TRUE,
                 !.runs = [r \in AiRequests |->
                             IF Active(aiRun.runs[r]) /\ aiRun.runs[r].cancelAt < 0
                             THEN [aiRun.runs[r] EXCEPT !.cancelAt = aiRun.runs[r].i]
                             ELSE aiRun.runs[r]]]
  /\ RunFrame

InitRun ==
  /\ Init
  /\ tabUrl = Seed
  /\ tabStatus = "complete"

NextAi(requests) ==
  \/ \E r \in requests : AiSummary(r)
  \/ \E r \in requests : ProcessBatchesStart(r)
  \/ \E r \in requests : GeminiSettled(r)
  \/ \E r \in requests : SleepDone(r)
  \/ \E r \in requests : StoreSettled(r)
  \/ AiCancel

\* one request
NextRun == NextAi({"first"})

SpecRun == InitRun /\ [][NextRun]_vars

\* the popup sends "ai-summary" again while the first request is answered
NextCancel == NextAi(AiRequests)

SpecCancel == InitRun /\ [][NextCancel]_vars

\* ------------------------------------------------------ consolidation
\* The session's records of techStackResults and analyticsEventsResults as
\* sequences in key order. A record stored by storeAIResults has batchId
\* "batch" and no occurrences field (0 here); consolidateStoredResults
\* stores records with batchId "consolidated". A confidence is in
\* thousandths. fresh: nothing was stored since the last pass; before: the
\* records the last pass read.
TechItems ==
  [name : {"React", "react"}, category : {"framework"},
   confidence : {500, 957}]

\* analytics events of one request seen on one page, as the model
\* returns them
StoredEvents ==
  {item \in AnalyticsEvents : item.event_name = "page_view"}

\* Number(x.toFixed(2)), in thousandths
toFixed2(confidence) == ((confidence + 5) \div 10) * 10

Max(a, b) == IF a >= b THEN a ELSE b

\* dedupeTechRecords: the key of an item
TechKey(item) == <<ToLowerCase(item.name), ToLowerCase(item.category)>>

\* dedupeTechRecords: the map after the first i items, its entries in
\* insertion order
RECURSIVE TechMap(_, _)
TechMap(records, i) ==
  IF i = 0 THEN <<>>
  ELSE LET map == TechMap(records, i - 1)
           item == records[i]
           at == {k \in 1..Len(map) : map[k].key = TechKey(item)}
       IN IF at = {}
          THEN Append(map, [key |-> TechKey(item),
                            value |-> [name |-> item.name,
                                       category |-> item.category,
                                       confidence |-> item.confidence,
                                       occurrences |-> 1]])
          ELSE [k \in 1..Len(map) |->
                  IF k \in at
                  THEN [map[k] EXCEPT
                          !.value.confidence = Max(@, item.confidence),
                          !.value.occurrences = @ + 1]
                  ELSE map[k]]

\* dedupeTechRecords: the map's values, the confidence through toFixed(2)
dedupeTechRecords(records) ==
  LET map == TechMap(records, Len(records))
  IN [k \in 1..Len(map) |->
        [map[k].value EXCEPT !.confidence = toFixed2(@)]]

Stored(batchId, item, occurrences) ==
  [field \in DOMAIN item \cup {"batchId", "occurrences"} |->
     IF field = "batchId" THEN batchId
     ELSE IF field = "occurrences" THEN occurrences
     ELSE item[field]]

ConsolidationFrame ==
  /\ UNCHANGED <<search, analysis, batchRun, aiRun, csv>>
  /\ AiFrame

\* storeAIResults for a batch whose answer holds one tech item
StoreTechItem ==
  /\ sessionResults.passes < MaxPasses
  /\ sessionResults.added < MaxStored
  /\ \E item \in TechItems :
       sessionResults' = [sessionResults EXCEPT
                            !.tech = Append(@, Stored("batch", item, 0)),
                            !.added = @ + 1,
                            !.fresh = FALSE]
  /\ ConsolidationFrame

\* storeAIResults for a batch whose answer holds one analytics event
StoreAnalyticsEvent ==
  /\ sessionResults.passes < MaxPasses
  /\ sessionResults.added < MaxStored
  /\ \E item \in StoredEvents :
       sessionResults' = [sessionResults EXCEPT
                            !.analytics = Append(@, Stored("batch", item, 0)),
                            !.added = @ + 1,
                            !.fresh = FALSE]
  /\ ConsolidationFrame

\* consolidateStoredResults(sessionId): the records are read and merged,
\* the session's records are deleted and the merged ones are added
ConsolidateStoredResults ==
  /\ sessionResults.passes < MaxPasses
  /\ LET dedupedTech == dedupeTechRecords(sessionResults.tech)
         dedupedAnalytics == dedupeAnalyticsRecords(sessionResults.analytics)
     IN sessionResults' =
          [tech |-> [k \in 1..Len(dedupedTech) |->
                       Stored("consolidated",
                              [name |-> dedupedTech[k].name,
                               category |-> dedupedTech[k].category,
                               confidence |-> dedupedTech[k].confidence],
                              dedupedTech[k].occurrences)],
           analytics |-> [k \in 1..Len(dedupedAnalytics) |->
                            Stored("consolidated",
                                   [provider |-> dedupedAnalytics[k].provider,
                                    event_name |-> dedupedAnalytics[k].event_name,
                                    page_url |-> dedupedAnalytics[k].page_url,
                                    request_url |-> dedupedAnalytics[k].request_url,
                                    notes |-> dedupedAnalytics[k].notes],
                                   dedupedAnalytics[k].occurrences)],
           added |-> sessionResults.added,
           passes |-> sessionResults.passes + 1,
           fresh |-> TRUE,
           before |-> [tech |-> sessionResults.tech,
                       analytics |-> sessionResults.analytics]]
  /\ ConsolidationFrame

NextConsolidate ==
  \/ StoreTechItem
  \/ StoreAnalyticsEvent
  \/ ConsolidateStoredResults

SpecConsolidate == InitRun /\ [][NextConsolidate]_vars

\* --------------------------------------------------------- CSV export
\* A cell and the CSV text are sequences of characters. The rows are built
\* cell by cell; then one of the two writers turns them into text: the
\* "download-network-csv" handler of the service worker, or downloadCSV of
\* the popup.
Quote == "\""
Comma == ","
LineBreak == "\n"
CsvChars == {"a", Quote, Comma, LineBreak}

RECURSIVE Join(_, _)
\* Array.prototype.join of sequences of characters
Join(parts, separator) ==
  IF parts = <<>> THEN <<>>
  ELSE IF Len(parts) = 1 THEN parts[1]
  ELSE parts[1] \o separator \o Join(Tail(parts), separator)

KeepQuotes(cell) == cell
RECURSIVE DoubleQuotes(_)
\* cell.replace(/"/g, '""')
DoubleQuotes(cell) ==
  IF cell = <<>> THEN <<>>
  ELSE (IF Head(cell) = Quote THEN <<Quote, Quote>> ELSE <<Head(cell)>>)
         \o DoubleQuotes(Tail(cell))

Includes(cell, ch) == \E k \in 1..Len(cell) : cell[k] = ch

\* the cell of "download-network-csv": quoted when it holds a comma, a
\* quote or a line break
NetworkCsvCell(cell) ==
  LET cellStr == DoubleQuotes(cell)
  IN IF Includes(cellStr, Comma) \/ Includes(cellStr, Quote)
        \/ Includes(cellStr, LineBreak)
     THEN <<Quote>> \o cellStr \o <<Quote>>
     ELSE cellStr

\* the cell of downloadCSV: always quoted
PopupCsvCell(cell) == <<Quote>> \o DoubleQuotes(cell) \o <<Quote>>

CsvContent(rows, writer) ==
  Join([r \in 1..Len(rows) |->
          Join([c \in 1..Len(rows[r]) |->
                  IF writer = "background" THEN NetworkCsvCell(rows[r][c])
                  ELSE PopupCsvCell(rows[r][c])],
               <<Comma>>)],
       <<LineBreak>>)

CsvCharCount(rows) ==
  LET cells == Join(rows, <<>>)
  IN Len(Join(cells, <<>>))

CsvFrame ==
  /\ UNCHANGED <<search, analysis, batchRun, aiRun, sessionResults>>
  /\ AiFrame

\* a character is added to the last cell of the last row
CellGrows ==
  /\ csv.stage = "rows"
  /\ CsvCharCount(csv.rows) < MaxCsvChars
  /\ \E ch \in CsvChars :
       LET r == Len(csv.rows)
           c == Len(csv.rows[r])
       IN csv' = [csv EXCEPT !.rows[r][c] = Append(@, ch)]
  /\ CsvFrame

\* a cell is added to the last row, or a row of one cell to the rows
TableGrows ==
  /\ csv.stage = "rows"
  /\ Len(Join(csv.rows, <<>>)) < MaxCsvCells
  /\ \/ csv' = [csv EXCEPT !.rows[Len(csv.rows)] = Append(@, <<>>)]
     \/ csv' = [csv EXCEPT !.rows = Append(@, << <<>> >>)]
  /\ CsvFrame

\* the header row of "download-network-csv": words without a comma, a
\* quote or a line break
NetworkCsvHeader == << <<"a">>, <<"a">> >>

\* "download-network-csv": csvContent of the header row and a row per call
DownloadNetworkCsv ==
  /\ csv.stage = "rows"
  /\ LET rows == <<NetworkCsvHeader>> \o csv.rows
     IN csv' = [csv EXCEPT !.stage = "written", !.writer = "background",
                           !.rows = rows,
                           !.csvContent = CsvContent(rows, "background")]
  /\ CsvFrame

\* downloadCSV(filename, rows) of the popup
DownloadCSV ==
  /\ csv.stage = "rows"
  /\ csv' = [csv EXCEPT !.stage = "written", !.writer = "popup",
                        !.csvContent = CsvContent(csv.rows, "popup")]
  /\ CsvFrame

NextCsv ==
  \/ CellGrows
  \/ TableGrows
  \/ DownloadNetworkCsv
  \/ DownloadCSV

SpecCsv == InitRun /\ [][NextCsv]_vars

\* ------------------------------------------------------------ properties
Visits == 1..Len(visitLog)
Dequeues == 1..Len(dequeueLog)

\* the deduplication identity of a URL: everything but the fragment, the
\* query parameters taken in key order
SamePage(u, v) ==
  /\ u.origin = v.origin
  /\ u.pathname = v.pathname
  /\ SortParams(u.search) = SortParams(v.search)

\* C1: within one crawl no two visits are started for URLs with the same
\* normalized form
C1_NoDuplicateVisits ==
  \A i, j \in Visits : i # j => ~SamePage(visitLog[i].url, visitLog[j].url)

\* /a was visited and /b, which links to /a#top, was scanned at a depth
\* whose links are enqueued
C1_Witness ==
  /\ \E i \in Visits : visitLog[i].url = PageA
  /\ \E i \in Visits : visitLog[i].url = PageB /\ visitLog[i].depth < maxDepth
  /\ logs[PageB] = "scanned"
  /\ ~crawlActive

\* C3: no task is dequeued while another task's visit is not concluded
C3_OneTaskInFlight == ~overlap

\* C6: every dequeued task had the least depth of the queue
C6_DequeueMinDepth ==
  \A i \in Dequeues : \A d \in dequeueLog[i].rest : dequeueLog[i].depth <= d

\* a task was dequeued while a deeper one stayed queued
C6_Witness ==
  \E i \in Dequeues : \E d \in dequeueLog[i].rest : dequeueLog[i].depth < d

\* C7: the depths of the dequeued tasks never decrease
C7_DepthsNonDecreasing ==
  \A i, j \in Dequeues : i < j => dequeueLog[i].depth <= dequeueLog[j].depth

\* C2: with a page limit set, the visited set never outgrows it, nothing
\* is dequeued once it is reached, and the processNext that finds it
\* reached ends the crawl
LimitHit == pageLimit # 0 /\ Cardinality(visited) >= pageLimit

\* a step that runs processNext: its timer fires, or a timeout or a tab
\* error gives the current task up and calls it
ProcessNextRuns ==
  \/ pendingProcessNext' < pendingProcessNext
  \/ currentTask # NoTask /\ currentTask' = NoTask /\ reports' = reports

C2_PageLimit ==
  /\ [](pageLimit # 0 => Cardinality(visited) <= pageLimit)
  /\ [][LimitHit => (dequeueLog' = dequeueLog /\ visited' = visited)]_vars
  /\ [][(LimitHit /\ crawlActive /\ ProcessNextRuns)
          => (~crawlActive' /\ crawlStatus' = "limit")]_vars

\* the crawl ended on its page limit with tasks still queued
C2_Witness ==
  /\ crawlStatus = "limit"
  /\ Cardinality(visited) = pageLimit
  /\ queue # <<>>

\* C4: once the page timer has given up a page, a load-complete for that
\* page changes nothing: no scheduler state, no timer, no scan command
C4_LateLoadIsNoOp ==
  [][(tabStatus = "loading" /\ tabStatus' = "complete"
        /\ normalizeUrl(tabUrl) \in abandoned)
      => (scanTimers' = scanTimers /\ UNCHANGED schedVars)]_vars

\* C5: a hung page does not stall the crawl: while the crawl is active
\* some timer, callback or page event is still due
C5_HungPageNoStall ==
  (phase = "started" /\ crawlActive) => ENABLED NextTimed

\* C8: every link a scan report enqueued had the crawl's origin, came
\* from a report of depth below maxDepth, was neither visited nor
\* discovered, and no normalized URL was enqueued twice
Enqueues == 1..Len(enqueueLog)

C8_LinkAcceptance ==
  /\ \A i \in Enqueues :
        /\ enqueueLog[i].url.origin = origin
        /\ enqueueLog[i].from < maxDepth
        /\ ~enqueueLog[i].known
        /\ ~SamePage(enqueueLog[i].url, Seed)
  /\ \A i, j \in Enqueues :
        i # j => ~SamePage(enqueueLog[i].url, enqueueLog[j].url)

\* a report listed a cross-origin link, a link already discovered and a
\* new link, and the new one was enqueued
C8_Witness ==
  /\ \E i \in Enqueues : enqueueLog[i].url = PageD /\ enqueueLog[i].from = 2
  /\ \E i \in Enqueues : enqueueLog[i].url = PageA
  /\ \E i \in 1..Len(reports) :
        /\ reports[i].internalLinks = <<PageATop, PageD, PageB>>
        /\ reports[i].depth = 2
  /\ \E i \in 1..Len(reports) : reports[i].internalLinks = <<PageA, PageB, PageC>>

\* C9: seed https://example.com/, maxDepth 1, the seed's report lists
\* /a, /b and https://other.com/c: the queue then holds /a and /b at depth 2
SeedReport == [url |-> Seed, depth |-> 1, internalLinks |-> <<PageA, PageB, PageC>>]

C9_Scenario ==
  /\ maxDepth = 1
  /\ visitLog = <<[url |-> Seed, depth |-> 1]>>
  /\ reports = <<SeedReport>>
  /\ Len(dequeueLog) = 1

C9_QueueAfterSeedScan ==
  C9_Scenario =>
    /\ queue = <<[url |-> PageA, depth |-> 2], [url |-> PageB, depth |-> 2]>>
    /\ \A i \in Enqueues : enqueueLog[i].url.origin # Other

\* C10: a crawl of depth 0 ends having visited the starting page only
C10_DepthZeroVisitsSeed ==
  (maxDepth = 0 /\ phase = "started" /\ ~crawlActive)
    => visited = {normalizeUrl(Seed)}

\* C11: when the page timer fires for the task in flight, the page stays
\* visited, gets an empty visit record, stops being the current task, and
\* processNext dequeues the next task or ends the crawl
TimerAbandons ==
  /\ pageTimeout # NoTimer
  /\ currentTask # NoTask
  /\ normalizeUrl(currentTask.url) = normalizeUrl(pageTimeout)
  /\ abandoned' # abandoned

TabLookupError ==
  errors' = errors + 1 /\ tabUrl' = tabUrl /\ tabsUpdatePending' = tabsUpdatePending

NavigationError ==
  tabsUpdatePending' # tabsUpdatePending /\ errors' = errors

CommunicationError ==
  BagCardinality(sends') < BagCardinality(sends) /\ scanning' = scanning

C12_ErrorsAreNotFatal ==
  [][(currentTask # NoTask /\ crawlActive
        /\ (TabLookupError \/ NavigationError \/ CommunicationError))
      => /\ currentTask' # currentTask
         /\ (queue # <<>> /\ ~LimitHit)
              => (crawlActive' /\ Len(dequeueLog') = Len(dequeueLog) + 1)
         /\ (queue = <<>> \/ LimitHit) => ~crawlActive']_vars

\* a page whose content script could not be reached was given up without
\* its timer, and the crawl is on another page
C12_Witness ==
  \E u \in Urls :
    /\ logs[u] = "empty"
    /\ normalizeUrl(u) \notin abandoned
    /\ crawlActive
    /\ currentTask # NoTask
    /\ currentTask.url # u

\* C13: processNext tests deactivated, then page limit, then empty queue;
\* run on a deactivated crawl it dequeues nothing, leaves queue and
\* visited set alone and leaves the status "stopped"
C13_TerminationOrder ==
  [][ProcessNextRuns =>
       /\ ~crawlActive =>
            /\ queue' = queue
            /\ visited' = visited
            /\ dequeueLog' = dequeueLog
            /\ crawlStatus' = "stopped"
       /\ (crawlActive /\ LimitHit) => crawlStatus' = "limit"
       /\ (crawlActive /\ ~LimitHit /\ queue = <<>>) => crawlStatus' = "complete"]_vars

\* processNext ran on a deactivated crawl with tasks left in the queue
C13_Witness ==
  /\ crawlStatus = "stopped"
  /\ ~crawlActive
  /\ queue # <<>>
  /\ pageLimit # 0
  /\ Cardinality(visited) >= pageLimit

\* the step of startCrawl that makes the session
SessionCreated == phase = "reset" /\ phase' = "session"

\* C14: after a start on an http(s) page, at the moment the new session
\* exists, the queue holds exactly the seed task at depth 1, the visited
\* set is empty, the discovered set is exactly the normalized seed, no task
\* is in flight, the crawl is active, the session id is one never used
\* before and differs from the previous session's, and no captured call of
\* the previous session is left in the capture store.
C14_StartResetsAndRotates ==
  [][SessionCreated =>
       /\ queue' = <<[url |-> tabUrl, depth |-> 1]>>
       /\ visited' = {}
       /\ allDiscoveredLinks' = {normalizeUrl(tabUrl)}
       /\ currentTask' = NoTask
       /\ crawlActive'
       /\ currentSessionId' \notin 0..lastSession
       /\ currentSessionId' # localSessionId
       /\ \A c \in networkCalls' : c.sessionId = 0 \/ c.sessionId # localSessionId]_vars

\* C15: a start request made while the tab's page is not http(s) changes
\* nothing: once startCrawl has declined it, the queue, the visited and
\* discovered sets, the current task, the active flag, the session id and
\* the parameters maxDepth and pageLimit are what they were before the
\* request (here: the values the worker starts with).
C15_NonHttpStartIsNoOp ==
  phase = "ignored" =>
    /\ queue = <<>>
    /\ visited = {}
    /\ allDiscoveredLinks = {}
    /\ currentTask = NoTask
    /\ ~crawlActive
    /\ currentSessionId = 0
    /\ maxDepth = DefaultDepth
    /\ pageLimit = 0

Occurrences(s, p) == Cardinality({i \in 1..Len(s) : s[i] = p})

DifferOnlyInFragment(u, v) ==
  CanParse(u) /\ CanParse(v) /\ [u EXCEPT !.hash = ""] = [v EXCEPT !.hash = ""]

DifferOnlyInParamOrder(u, v) ==
  /\ CanParse(u) /\ CanParse(v)
  /\ [u EXCEPT !.search = <<>>] = [v EXCEPT !.search = <<>>]
  /\ Len(u.search) = Len(v.search)
  /\ \A p \in Params : Occurrences(u.search, p) = Occurrences(v.search, p)

\* C16: normalizeUrl is idempotent, and two URLs that differ only in their
\* fragment, or only in the order of their query parameters, normalize to
\* the same string.
C16_NormalizeUrlLaws ==
  norm.stage = "twice" =>
    /\ norm.nnu = norm.nu
    /\ DifferOnlyInFragment(norm.u, norm.v) => norm.nu = norm.nv
    /\ DifferOnlyInParamOrder(norm.u, norm.v) => norm.nu = norm.nv

\* the persisted records that carry a session id
SessionRecords == networkCalls \cup resultStores \cup uniqueUrls

\* C17: after a browser startup nothing persisted belongs to a session made
\* before it: the capture store, the classification result stores and the
\* discovered-URL index hold no record of such a session, and the stored
\* current-session id is not one of them.
C17_StartupWipesEarlierSessions ==
  /\ \A r \in SessionRecords : r.sessionId > bootSession
  /\ localSessionId = 0 \/ localSessionId > bootSession

\* get-report: the calls read from the capture store, for the session id
\* in memory or else the one restored from chrome.storage.local
ReportSession == IF currentSessionId # 0 THEN currentSessionId ELSE localSessionId

Retrievable == {c \in networkCalls : c.sessionId = ReportSession}

\* C18: the calls captured for the latest session stay retrievable from
\* the store, across extension reloads and browser restarts.
C18_CapturedCallsPersist ==
  \A c \in captured : c.sessionId = lastSession => c \in Retrievable

\* the listener has run for an event
EventDelivered == lastEvent' # lastEvent \/ lastCallId' # lastCallId

C20_OneRecordPerSignature ==
  /\ \A a, b \in embeddings :
        (a.sessionId = b.sessionId /\
         getRequestSignature(a.requestData) = getRequestSignature(b.requestData))
          => a = b
  /\ \A i \in 1..Len(indexRun.requestsToProcess) :
        getRequestSignature(indexRun.requestsToProcess[i])
          \notin indexRun.existingSignatures

\* the cache key of request i of the indexing run
KeyOf(i) == hashText(requestToText(indexRun.requestsToProcess[i]))

\* createEmbedding is entered for request i
EmbedStarts(i) ==
  /\ indexRun # NoRun
  /\ i \in Wave \ indexRun.fetching
  /\ indexRun' # indexRun
  /\ indexRun' = NoRun \/ i \in indexRun'.fetching \cup indexRun'.done

\* the endpoint's answer for request i has been handled
EmbedAnswered(i) ==
  /\ indexRun # NoRun
  /\ i \in indexRun.fetching
  /\ indexRun' = NoRun \/ i \in indexRun'.done

SearchedRecords == {r \in embeddings : r.sessionId = search.sessionId}

ScoreOf(r) == cosineSimilarity(search.queryEmbedding, r.embedding)

ResultIds == {search.results[i].id : i \in 1..Len(search.results)}

\* what a brute-force sort of the session's records would allow as top k
TopKOfSession ==
  /\ Len(search.results) =
       (IF Cardinality(SearchedRecords) < search.limit
        THEN Cardinality(SearchedRecords) ELSE search.limit)
  /\ Cardinality(ResultIds) = Len(search.results)
  /\ \A i \in 1..Len(search.results) :
       /\ \E r \in SearchedRecords :
            /\ r.id = search.results[i].id
            /\ search.results[i].similarity = ScoreOf(r)
       /\ i > 1 => SimLeq(search.results[i].similarity,
                          search.results[i - 1].similarity)
       /\ \A r \in SearchedRecords :
            r.id \notin ResultIds
              => SimLeq(ScoreOf(r), search.results[i].similarity)

\* C21: searchSimilar(q, sessionId, k) returns exactly min(k, n) records of
\* the session, in non-increasing order of similarity, no record left out
\* scoring higher than one returned, for every n: it never ends up with its
\* promise unsettled, and what it resolves with is a top k of the session.
C21_SearchReturnsTopK ==
  /\ search.stage # "failed"
  /\ search.stage = "done" => TopKOfSession

\* every record of the searched session was indexed while the embedding
\* endpoint was failing: it carries the fallback vector of its text
FallbackSession ==
  \A r \in SearchedRecords :
    r.embedding = fallbackEmbedding(requestToText(r.requestData))

\* C23: a session whose requests were all indexed with the fallback vector
\* (the endpoint failed for each of them) can still be searched:
\* searchSimilar(q, sessionId, k) does not end in an error or unsettled, and
\* it resolves with k results (all n when the session has fewer than k).
C23_FallbackSessionSearchable ==
  (search.stage # "none" /\ FallbackSession)
    => /\ search.stage # "failed"
       /\ search.stage = "done"
            => Len(search.results) =
                 (IF Cardinality(SearchedRecords) < search.limit
                  THEN Cardinality(SearchedRecords) ELSE search.limit)

\* two requests agree in host, path and query
SameEndpoint(a, b) ==
  a.host = b.host /\ a.pathname = b.pathname /\ a.queryParams = b.queryParams

\* ... and in the first blocks * 100 characters of the body
SamePrefix(a, b, blocks) ==
  SameEndpoint(a, b)
    /\ SliceBlocks(a.postData, blocks) = SliceBlocks(b.postData, blocks)

\* two classified events agree, letter case aside
SameEvent(a, b) ==
  \A f \in {"provider", "event_name", "page_url", "request_url", "notes"} :
    ToLowerCase(a[f]) = ToLowerCase(b[f])

RECURSIVE Flatten(_)
Flatten(batches) ==
  IF batches = <<>> THEN <<>> ELSE Head(batches) \o Flatten(Tail(batches))

\* the calls a submitted payload carries
PayloadCalls(payload) ==
  {RequestsOf(payload.pages)[r].call : r \in 1..Len(RequestsOf(payload.pages))}

\* the batches are the calls in their order, cut into non-empty pieces, and
\* a call that is over the ceiling by itself is alone in its batch
OrderedPartition ==
  /\ Flatten(batchRun.batches) = [k \in 1..Len(batchRun.networkCalls) |-> k]
  /\ \A b \in 1..Len(batchRun.batches) :
       /\ Len(batchRun.batches[b]) > 0
       /\ \A j \in 1..Len(batchRun.batches[b]) :
            callTokens(batchRun.networkCalls[batchRun.batches[b][j]])
                + baseOverhead > MAX_TOKENS_PER_BATCH
              => Len(batchRun.batches[b]) = 1

\* C25: the batches are an order-preserving partition of the calls handed
\* to processBatchesDirect, an oversized call alone in its batch, and every
\* call of a batch is in the payload built and submitted for that batch.
C25_PartitionAndNoCallDropped ==
  batchRun.stage # "none" =>
    /\ OrderedPartition
    /\ \A s \in 1..Len(batchRun.submitted) :
         \A j \in 1..Len(batchRun.batches[batchRun.submitted[s].batch]) :
           batchRun.batches[batchRun.submitted[s].batch][j]
             \in PayloadCalls(batchRun.submitted[s].payload)

\* C26: a submitted payload's estimated tokens plus the prompt overhead are
\* within MAX_TOKENS_PER_BATCH, except a payload of a single call that is
\* over it alone, and that one is, serialized, within the hard check's
\* length.
C26_PayloadWithinCeilings ==
  \A s \in 1..Len(batchRun.submitted) :
    LET payload == batchRun.submitted[s].payload
    IN \/ payload.estimatedTokens + baseOverhead <= MAX_TOKENS_PER_BATCH
       \/ /\ Len(RequestsOf(payload.pages)) = 1
          /\ PayloadJsonLength(payload) <= HardCheckLength

\* the batches of a request whose processing has ended
Finished(run) ==
  {j \in 1..run.n : j < run.i \/ (j = run.i /\ run.stage = "done")}

BadOutcomes == {"modelError", "batchError"}

\* C27: for one batch the model endpoint is called at least once and at
\* most MAX_RETRIES times; the delay before a retry grows with the attempt
\* number and is longer after a network error than after another error of
\* the same attempt; another call for the same batch is made only after a
\* failed attempt and its delay, never after a successful one; and the
\* batch ends in the model's terminal error exactly from the last allowed
\* attempt
C27_BoundedRetriesWithBackoff ==
  /\ [](/\ \A r \in AiRequests :
             aiRun.runs[r].stage \in {"calling", "sleeping"} =>
               /\ aiRun.runs[r].calls >= 1
               /\ aiRun.runs[r].calls <= MAX_RETRIES
        /\ \A a, b \in aiRun.slept :
             /\ (a.isNetworkError = b.isNetworkError /\ a.attempt < b.attempt)
                  => a.delay < b.delay
             /\ (a.attempt = b.attempt /\ a.isNetworkError /\ ~b.isNetworkError)
                  => a.delay > b.delay)
  /\ [][\A r \in AiRequests :
          LET run == aiRun.runs[r]
              next == aiRun'.runs[r]
          IN /\ (next.i = run.i /\ next.calls = run.calls + 1)
                  => run.stage = "sleeping"
             /\ (run.stage = "calling" /\ next.stage = "sleeping")
                  => run.calls < MAX_RETRIES
             /\ \A j \in 1..run.n :
                  (run.outcome[j] = "none" /\ next.outcome[j] = "modelError")
                    => /\ run.stage = "calling"
                       /\ run.i = j
                       /\ run.calls = MAX_RETRIES]_vars

\* batch 1 ended in the terminal error, batch 2 got its answer from the
\* second call, and retries were delayed after both kinds of error at the
\* first attempt and after the second attempt
C27_Witness ==
  /\ aiRun.runs["first"].outcome = <<"modelError", "result">>
  /\ aiRun.runs["first"].stage = "storingTech"
  /\ aiRun.runs["first"].calls = 2
  /\ \A isNetworkError \in BOOLEAN :
       \E a \in aiRun.slept :
         a.attempt = 1 /\ a.isNetworkError = isNetworkError
  /\ \E a \in aiRun.slept : a.attempt = 2

\* C28: when a request on which no cancel arrived has ended, every batch
\* after a batch that ended in an error (of the model call, of reading the
\* answer or of storing it) was submitted and processed
C28_BadBatchDoesNotAbort ==
  \A r \in AiRequests :
    LET run == aiRun.runs[r]
    IN (run.stage = "done" /\ run.cancelAt < 0) =>
         \A b, j \in 1..run.n :
           (run.outcome[b] \in BadOutcomes /\ j > b) =>
             (j <= run.i /\ run.outcome[j] # "none")

\* batch 1 ended in an error, no cancel arrived, and batch 2 was processed
C28_Witness ==
  /\ aiRun.runs["first"].stage = "done"
  /\ aiRun.runs["first"].cancelAt < 0
  /\ aiRun.runs["first"].n = 2
  /\ aiRun.runs["first"].outcome[1] \in BadOutcomes
  /\ aiRun.runs["first"].outcome[2] = "result"

\* C29: a request has one batch in process at a time, and while the model
\* is called for a batch (and at the end of the request) both result
\* records of every earlier batch whose answer was stored without error
\* are in the result store under the session
C29_StoredBeforeNextBatch ==
  \A r \in AiRequests :
    LET run == aiRun.runs[r]
    IN run.stage \in {"calling", "sleeping", "done"} =>
         \A j \in 1..run.n :
           /\ j > run.i => run.outcome[j] = "none"
           /\ j \in Finished(run) =>
                /\ run.outcome[j] # "none"
                /\ run.outcome[j] = "result" =>
                     /\ ResultRecord(r, j, "techStackResults") \in aiRun.results
                     /\ ResultRecord(r, j, "analyticsEventsResults") \in aiRun.results

\* the model is called for batch 2 after batch 1's answer was stored
C29_Witness ==
  /\ aiRun.runs["first"].stage = "calling"
  /\ aiRun.runs["first"].i = 2
  /\ aiRun.runs["first"].outcome[1] = "result"

\* C30: once a cancel arrived while a request was answered, no batch after
\* the one in process at that moment is submitted, and that batch is
\* processed to its end, its answer stored
C30_CancelStopsAtBoundary ==
  \A r \in AiRequests :
    LET run == aiRun.runs[r]
    IN run.cancelAt >= 0 =>
         /\ run.i <= run.cancelAt
         /\ (run.stage = "done" /\ run.cancelAt >= 1) =>
              /\ run.outcome[run.cancelAt] # "none"
              /\ run.outcome[run.cancelAt] = "result" =>
                   /\ ResultRecord(r, run.cancelAt, "techStackResults") \in aiRun.results
                   /\ ResultRecord(r, run.cancelAt, "analyticsEventsResults") \in aiRun.results

\* the occurrence count a stored record stands for
OccurrencesOf(rec) == IF rec.batchId = "batch" THEN 1 ELSE rec.occurrences

RECURSIVE SumOccurrences(_, _)
SumOccurrences(records, at) ==
  IF at = {} THEN 0
  ELSE LET k == CHOOSE k \in at : TRUE
       IN OccurrencesOf(records[k]) + SumOccurrences(records, at \ {k})

MergedTech(rec) ==
  {k \in 1..Len(sessionResults.before.tech) :
     TechKey(sessionResults.before.tech[k]) = TechKey(rec)}

MergedAnalytics(rec) ==
  {k \in 1..Len(sessionResults.before.analytics) :
     EventKey(sessionResults.before.analytics[k]) = EventKey(rec)}

\* C31: right after a consolidation pass no per-batch record is left,
\* every tech record carries the greatest confidence of the records merged
\* into it, and every record's occurrences is the sum of the counts of the
\* records merged into it, a per-batch record counting 1
C31_ConsolidatedMaxAndSum ==
  sessionResults.fresh =>
    /\ \A k \in 1..Len(sessionResults.tech) :
         LET rec == sessionResults.tech[k]
         IN /\ rec.batchId = "consolidated"
            /\ \E m \in MergedTech(rec) :
                 rec.confidence = sessionResults.before.tech[m].confidence
            /\ \A m \in MergedTech(rec) :
                 rec.confidence >= sessionResults.before.tech[m].confidence
            /\ rec.occurrences =
                 SumOccurrences(sessionResults.before.tech, MergedTech(rec))
    /\ \A k \in 1..Len(sessionResults.analytics) :
         LET rec == sessionResults.analytics[k]
         IN /\ rec.batchId = "consolidated"
            /\ rec.occurrences =
                 SumOccurrences(sessionResults.before.analytics,
                                MergedAnalytics(rec))

\* C32: right after a consolidation pass no two tech records of the
\* session have the same name and category, and no two analytics records
\* the same provider, event_name and request_url
C32_OneRecordPerNaturalKey ==
  sessionResults.fresh =>
    /\ \A i, j \in 1..Len(sessionResults.tech) :
         (/\ sessionResults.tech[i].name = sessionResults.tech[j].name
          /\ sessionResults.tech[i].category = sessionResults.tech[j].category)
           => i = j
    /\ \A i, j \in 1..Len(sessionResults.analytics) :
         (/\ sessionResults.analytics[i].provider = sessionResults.analytics[j].provider
          /\ sessionResults.analytics[i].event_name = sessionResults.analytics[j].event_name
          /\ sessionResults.analytics[i].request_url = sessionResults.analytics[j].request_url)
           => i = j

\* C39: a consolidation pass made when nothing was stored since the last
\* pass leaves the session's records as they were
C39_ConsolidationIdempotent ==
  [][(/\ sessionResults.fresh
      /\ sessionResults'.passes = sessionResults.passes + 1)
       => /\ sessionResults'.tech = sessionResults.tech
          /\ sessionResults'.analytics = sessionResults.analytics]_vars

RECURSIVE ReadCsv(_, _, _, _, _, _)
\* the CSV text split by the quoting rules of the writers: a quote opens
\* and closes a quoted stretch, two quotes inside one stand for a quote,
\* a comma outside ends the cell, a line break outside ends the row
ReadCsv(text, i, quoted, cell, row, rows) ==
  IF i > Len(text)
  THEN IF text = <<>> THEN <<>> ELSE Append(rows, Append(row, cell))
  ELSE IF quoted
  THEN IF text[i] # Quote
       THEN ReadCsv(text, i + 1, TRUE, Append(cell, text[i]), row, rows)
       ELSE IF i < Len(text) /\ text[i + 1] = Quote
       THEN ReadCsv(text, i + 2, TRUE, Append(cell, Quote), row, rows)
       ELSE ReadCsv(text, i + 1, FALSE, cell, row, rows)
  ELSE IF text[i] = Quote
  THEN ReadCsv(text, i + 1, TRUE, cell, row, rows)
  ELSE IF text[i] = Comma
  THEN ReadCsv(text, i + 1, FALSE, <<>>, Append(row, cell), rows)
  ELSE IF text[i] = LineBreak
  THEN ReadCsv(text, i + 1, FALSE, <<>>, <<>>, Append(rows, Append(row, cell)))
  ELSE ReadCsv(text, i + 1, FALSE, Append(cell, text[i]), row, rows)

\* C33: the text either writer produces, split again by the same quoting
\* rules, gives back the rows and cells that were written
C33_CsvRoundTrip ==
  csv.stage = "written" =>
    ReadCsv(csv.csvContent, 1, FALSE, <<>>, <<>>, <<>>) = csv.rows

\* the service worker wrote a table with a cell that holds a quote, a
\* comma and a line break
C33_Witness ==
  /\ csv.stage = "written"
  /\ csv.writer = "background"
  /\ \E r \in 1..Len(csv.rows) : \E c \in 1..Len(csv.rows[r]) :
       /\ Includes(csv.rows[r][c], Quote)
       /\ Includes(csv.rows[r][c], Comma)
       /\ Includes(csv.rows[r][c], LineBreak)

\* ---------------------------------------------------------------- C34
\* attempts a send chain can still make on a page that stays unreachable:
\* the retries left, the last send and the injection
SendRank(s) ==
  IF s.stage = "send" THEN 2 + (maxRetries - s.retryCount) ELSE 1

RECURSIVE SumRank(_, _)
SumRank(bag, chains) ==
  IF chains = {} THEN 0
  ELSE LET s == CHOOSE c \in chains : TRUE
       IN CopiesIn(s, bag) * SendRank(s) + SumRank(bag, chains \ {s})

TotalRank(bag) == SumRank(bag, BagToSet(bag))

WaveStartOf(i) ==
  (((i - 1) \div CONCURRENT_BATCH_SIZE) * CONCURRENT_BATCH_SIZE) + 1

TextOf(i) == requestToText(indexRun.requestsToProcess[i])

\* the endpoint's answer for request i is a vector
EmbedSucceeds(i) ==
  /\ EmbedAnswered(i)
  /\ \E r \in embeddings' \ embeddings : r.embedding \in ApiVectors

\* C40: within one indexing run the embedding endpoint is called at most
\* once per distinct request text whose call succeeds, also when requests
\* with one text are embedded in the same wave: when the endpoint answers
\* a call with a vector, no other call for the same text is in flight.
C40_OneCallPerText ==
  [][\A i \in 1..MaxCallList :
       EmbedSucceeds(i) =>
         \A j \in indexRun.fetching \ {i} : TextOf(j) # TextOf(i)]_vars

\* ---------------------------------------------------------------- C37
\* the page-scanned message handled in this step
ReportHandled == Len(reports') = Len(reports) + 1

LastReport == reports'[Len(reports')]

\* C37: a scan report is processed only if it belongs to the task in
\* flight: a report that arrives while no task is in flight, or while the
\* task in flight is for another page, does not clear the current task,
\* does not cancel its timer, does not enqueue links and does not schedule
\* another processNext.
C37_StaleReportIgnored ==
  [][(/\ ReportHandled
      /\ \/ currentTask = NoTask
         \/ normalizeUrl(LastReport.url) # normalizeUrl(currentTask.url))
     => /\ currentTask' = currentTask
        /\ pageTimeout' = pageTimeout
        /\ queue' = queue
        /\ pendingProcessNext' = pendingProcessNext]_vars

\* ---------------------------------------------------------------- C38
\* the content script scans the page of the task in flight
ScanningCurrentTask ==
  /\ currentTask # NoTask
  /\ \E s \in BagToSet(scanning) :
        normalizeUrl(s.url) = normalizeUrl(currentTask.url)

\* C38: once the scan command for a task has been issued, after
\* load-complete or in place, the page timer can no longer abandon the
\* task: no page timer is armed while the task's page is being scanned,
\* and no step abandons a task whose page is being scanned.
C38_NoTimerWhileScanning ==
  /\ [](ScanningCurrentTask => pageTimeout = NoTimer)
  /\ [][ScanningCurrentTask => abandoned' = abandoned]_vars

\* ---------------------------------------------------------------- C36
\* C36: a page that reaches load-complete but never sends its scan report
\* does not stall the crawl: while the crawl is active some timer,
\* callback or page event is still due, so that the task is cleared and
\* the crawl goes on to a terminal state.
C36_MutePageNoStall ==
  (phase = "started" /\ crawlActive) => ENABLED NextMute

====
